---- MODULE Spec2Model ----
(***************************************************************************)
(* The transaction signer of core/src/apps/wallet/sign_tx: signing.py      *)
(* (class Bitcoin, class MatchChecker) and bitcoinlike.py (class           *)
(* Bitcoinlike).  One signing session is a coroutine that suspends at every *)
(* host request and every user prompt; an action of this module is one     *)
(* resumption: the reply arrives and the code runs to the next suspension. *)
(* Hash writers are modelled as the sequence of what was written into them *)
(* (an ideal, collision-free hash).                                        *)
(***************************************************************************)
EXTENDS Integers, Sequences, FiniteSets, TLC

\* Bound: inputs_count + outputs_count of the SignTx message.
MaxItems == 3

\* The requests of extra data followed for one previous transaction.
MaxExtraDataRequests == 3

(***************************************************************************)
(* Module constants of signing.py                                          *)
(***************************************************************************)
_BIP32_WALLET_DEPTH == 2
_BIP32_CHANGE_CHAIN == 1
_BIP32_MAX_LAST_ELEMENT == 1000000

(***************************************************************************)
(* Script types (trezor.messages) and the classes helpers.py sorts them in *)
(***************************************************************************)
SEGWIT_INPUT_SCRIPT_TYPES == {"SPENDP2SHWITNESS", "SPENDWITNESS"}
NONSEGWIT_INPUT_SCRIPT_TYPES == {"SPENDADDRESS", "SPENDMULTISIG"}
CHANGE_OUTPUT_TO_INPUT_SCRIPT_TYPES ==
    [ PAYTOADDRESS     |-> "SPENDADDRESS",
      PAYTOMULTISIG    |-> "SPENDMULTISIG",
      PAYTOWITNESS     |-> "SPENDWITNESS",
      PAYTOP2SHWITNESS |-> "SPENDP2SHWITNESS" ]
CHANGE_OUTPUT_SCRIPT_TYPES == DOMAIN CHANGE_OUTPUT_TO_INPUT_SCRIPT_TYPES

input_is_segwit(txi) == txi.script_type \in SEGWIT_INPUT_SCRIPT_TYPES
input_is_nonsegwit(txi) == txi.script_type \in NONSEGWIT_INPUT_SCRIPT_TYPES

(***************************************************************************)
(* Errors.  A SigningError carries a FailureType and a message.            *)
(***************************************************************************)
NoError == [cls |-> "none", failure |-> "none", msg |-> ""]
SigningError(failure, msg) == [cls |-> "SigningError", failure |-> failure, msg |-> msg]
AssertionError == [cls |-> "AssertionError", failure |-> "none", msg |-> ""]
ChangedDuringSigning == SigningError("ProcessError", "Transaction has changed during signing")

(***************************************************************************)
(* MatchChecker.  attribute is UNDEFINED, MISMATCH or a value; a value and *)
(* the result of attribute_from_tx are tagged records so that the          *)
(* sentinels compare unequal to every value.  kind is "wallet_path"        *)
(* (WalletPathChecker) or "multisig" (MultisigFingerprintChecker).         *)
(***************************************************************************)
NoValue(kind) == IF kind = "wallet_path" THEN <<>> ELSE 0
UNDEFINED(kind) == [tag |-> "UNDEFINED", value |-> NoValue(kind)]
MISMATCH(kind) == [tag |-> "MISMATCH", value |-> NoValue(kind)]
None(kind) == [tag |-> "None", value |-> NoValue(kind)]
Value(v) == [tag |-> "VALUE", value |-> v]

MatchChecker(kind) == [attribute |-> UNDEFINED(kind), read_only |-> FALSE]

\* address_n[:-_BIP32_WALLET_DEPTH]
PathPrefix(address_n) ==
    IF Len(address_n) <= _BIP32_WALLET_DEPTH THEN <<>>
    ELSE SubSeq(address_n, 1, Len(address_n) - _BIP32_WALLET_DEPTH)

\* multisig.multisig_fingerprint: a checksum of the descriptor, here the
\* descriptor's identity (0 is "no multisig descriptor").
multisig_fingerprint_of(multisig) == multisig

attribute_from_tx(kind, txio) ==
    IF kind = "wallet_path"
    THEN IF txio.address_n = <<>> THEN None(kind) ELSE Value(PathPrefix(txio.address_n))
    ELSE IF txio.multisig = 0 THEN None(kind)
         ELSE Value(multisig_fingerprint_of(txio.multisig))

\* Python truth value of an attribute: None and the empty list are false.
Falsy(kind, a) == a.tag = "None" \/ (kind = "wallet_path" /\ a.value = <<>>)

\* The attribute of the input added last.
last_input_attribute(kind, c, txi) == attribute_from_tx(kind, txi)

\* add_input after the ensure(): the new attribute.
add_input_attribute(kind, c, txi) ==
    LET added_attribute == attribute_from_tx(kind, txi) IN
    IF c.attribute = MISMATCH(kind) THEN c.attribute
    ELSE IF Falsy(kind, added_attribute) THEN MISMATCH(kind)
    ELSE IF c.attribute = UNDEFINED(kind) THEN added_attribute
    ELSE IF c.attribute # added_attribute THEN MISMATCH(kind)
    ELSE c.attribute

\* add_input: [ok, checker]; ok is FALSE when ensure(not read_only) fails.
add_input(kind, c, txi) ==
    IF c.read_only THEN [ok |-> FALSE, checker |-> c]
    ELSE [ok |-> TRUE, checker |-> [c EXCEPT !.attribute = add_input_attribute(kind, c, txi)]]

\* A check that never raises.
check_input_skipped(kind, c, txi) == TRUE

\* check_input: TRUE when it returns, FALSE when it raises.
check_input(kind, c, txi) ==
    IF c.attribute = MISMATCH(kind) THEN TRUE
    ELSE c.attribute = attribute_from_tx(kind, txi)

\* A comparison with the output that leaves the checker writable.
output_matches_unlatched(kind, c, txo) ==
    [ checker |-> c,
      result  |-> IF c.attribute = MISMATCH(kind) THEN FALSE
                  ELSE attribute_from_tx(kind, txo) = c.attribute ]

\* output_matches: [result, checker]; the checker becomes read-only.
output_matches(kind, c, txo) ==
    [ checker |-> [c EXCEPT !.read_only = TRUE],
      result  |-> IF c.attribute = MISMATCH(kind) THEN FALSE
                  ELSE attribute_from_tx(kind, txo) = c.attribute ]

(***************************************************************************)
(* Coins (CoinInfo).  signer is the class that signs for the coin:         *)
(* "Bitcoin" (signing.py) or "Bitcoinlike" (bitcoinlike.py).  fork_id -1   *)
(* stands for None.  maxfee_kb is in model units (see FeeOverThreshold).   *)
(***************************************************************************)
Coin(name, signer, segwit, force_bip143, negative_fee, fork_id, extra_data) ==
    [ name |-> name, signer |-> signer, segwit |-> segwit,
      force_bip143 |-> force_bip143, negative_fee |-> negative_fee,
      fork_id |-> fork_id, extra_data |-> extra_data,
      timestamp |-> (name = "Peercoin"),
      bech32_prefix |-> segwit, cashaddr_prefix |-> (name = "Bcash"),
      maxfee_kb |-> 500 ]

Bitcoin   == Coin("Bitcoin",  "Bitcoin",     TRUE,  FALSE, FALSE, -1, FALSE)
Litecoin  == Coin("Litecoin", "Bitcoinlike", TRUE,  FALSE, FALSE, -1, FALSE)
Bcash     == Coin("Bcash",    "Bitcoinlike", FALSE, TRUE,  FALSE,  0, FALSE)
Bgold     == Coin("Bgold",    "Bitcoinlike", TRUE,  TRUE,  FALSE, 79, FALSE)
Peercoin  == Coin("Peercoin", "Bitcoinlike", FALSE, FALSE, TRUE,  -1, FALSE)
Komodo    == Coin("Komodo",   "Bitcoinlike", FALSE, FALSE, TRUE,  -1, TRUE)

(***************************************************************************)
(* Messages.  amount 0 stands for a zero or missing amount, multisig 0 for *)
(* no multisig descriptor, address_n <<>> for no path.  An address is its  *)
(* encoding, the type its version decodes to and its payload.              *)
(***************************************************************************)
TxInput(script_type, amount, address_n, multisig, prev_hash, prev_index) ==
    [ script_type |-> script_type, amount |-> amount, address_n |-> address_n,
      multisig |-> multisig, prev_hash |-> prev_hash, prev_index |-> prev_index,
      sequence |-> 0 ]

\* The same input with another sequence number.
WithSequence(t, sequence) == [t EXCEPT !.sequence = sequence]

NoAddress == [enc |-> "none", version |-> "none", payload |-> <<>>]
Address(enc, version, id) == [enc |-> enc, version |-> version, payload |-> <<id>>]

TxOutput(script_type, amount, address, address_n, multisig) ==
    [ script_type |-> script_type, amount |-> amount, address |-> address,
      address_n |-> address_n, multisig |-> multisig ]

NoScript == [kind |-> "none", payload |-> <<>>]
Raise(e) == [error |-> e, value |-> NoScript]
Return(v) == [error |-> NoError, value |-> v]

(***************************************************************************)
(* Output script derivation                                                *)
(***************************************************************************)
\* addresses.get_address(input_script_type, coin, node, multisig): the
\* address of the key at txo.address_n in the form of the input script type.
get_address(input_script_type, coin, txo) ==
    LET key == Append(txo.address_n, txo.multisig) IN
    CASE input_script_type = "SPENDADDRESS" ->
            [ enc |-> IF coin.cashaddr_prefix THEN "cashaddr" ELSE "base58",
              version |-> "p2pkh", payload |-> key ]
      [] input_script_type = "SPENDWITNESS" ->
            [enc |-> "bech32", version |-> "witness", payload |-> key]
      [] OTHER -> [enc |-> "base58", version |-> "p2sh", payload |-> key]

get_address_for_change(coin, txo) ==
    IF txo.script_type \notin DOMAIN CHANGE_OUTPUT_TO_INPUT_SCRIPT_TYPES
    THEN [error |-> SigningError("DataError", "Invalid script type"), value |-> NoAddress]
    ELSE [ error |-> NoError,
           value |-> get_address(CHANGE_OUTPUT_TO_INPUT_SCRIPT_TYPES[txo.script_type], coin, txo) ]

\* Bitcoin.get_raw_address: base58.decode_check, ValueError -> DataError.
Bitcoin_get_raw_address(address) ==
    IF address.enc = "base58"
    THEN [error |-> NoError, value |-> address.version]
    ELSE [error |-> SigningError("DataError", "Invalid address"), value |-> "none"]

\* Bitcoinlike.get_raw_address: CashAddr first, else the base class.
Bitcoinlike_get_raw_address(coin, address) ==
    IF coin.cashaddr_prefix /\ address.enc = "cashaddr"
    THEN IF address.version \in {"p2pkh", "p2sh"}
         THEN [error |-> NoError, value |-> address.version]
         ELSE [ error |-> [cls |-> "SigningError", failure |-> "none",
                           msg |-> "Unknown cashaddr address type"],
                value |-> "none" ]
    ELSE Bitcoin_get_raw_address(address)

get_raw_address(coin, address) ==
    IF coin.signer = "Bitcoinlike" THEN Bitcoinlike_get_raw_address(coin, address)
    ELSE Bitcoin_get_raw_address(address)

output_derive_script(coin, txo) ==
    IF txo.script_type = "PAYTOOPRETURN"
    THEN Return([kind |-> "op_return", payload |-> <<>>])
    ELSE
      LET change == IF txo.address_n # <<>> THEN get_address_for_change(coin, txo)
                    ELSE [error |-> NoError, value |-> txo.address]
          address == change.value
          raw == get_raw_address(coin, address)
      IN  IF change.error # NoError THEN Raise(change.error)
          ELSE IF coin.bech32_prefix /\ address.enc = "bech32"
          THEN Return([kind |-> "witness", payload |-> address.payload])
          ELSE IF raw.error # NoError THEN Raise(raw.error)
          ELSE IF raw.value = "p2pkh"
          THEN Return([kind |-> "p2pkh", payload |-> address.payload])
          ELSE IF raw.value = "p2sh"
          THEN Return([kind |-> "p2sh", payload |-> address.payload])
          ELSE Raise(SigningError("DataError", "Invalid address type"))

\* TxOutputBinType
TxOutputBin(coin, txo) ==
    [amount |-> txo.amount, script_pubkey |-> output_derive_script(coin, txo).value]

\* An output_is_change that admits every output.
AlwaysChange(wp, mf, txo) ==
    [result |-> TRUE, wallet_path |-> wp, multisig_fingerprint |-> mf]

\* Bitcoin.output_is_change: [result, wallet_path, multisig_fingerprint];
\* Python's and/or stop at the first operand that decides, so a checker is
\* latched only when its output_matches is reached.
output_is_change(wp, mf, txo) ==
    LET m == output_matches("multisig", mf, txo)
        w == output_matches("wallet_path", wp, txo)
    IN  IF txo.script_type \notin CHANGE_OUTPUT_SCRIPT_TYPES
        THEN [result |-> FALSE, wallet_path |-> wp, multisig_fingerprint |-> mf]
        ELSE IF txo.multisig # 0 /\ ~m.result
        THEN [result |-> FALSE, wallet_path |-> wp, multisig_fingerprint |-> m.checker]
        ELSE [ result |-> /\ w.result
                          /\ txo.address_n[Len(txo.address_n) - 1] <= _BIP32_CHANGE_CHAIN
                          /\ txo.address_n[Len(txo.address_n)] <= _BIP32_MAX_LAST_ELEMENT,
               wallet_path |-> w.checker,
               multisig_fingerprint |-> IF txo.multisig # 0 THEN m.checker ELSE mf ]

(***************************************************************************)
(* Hash writers.  Everything written is an item (field, kind, numbers);    *)
(* the digest of a writer is the sequence of its items.                    *)
(***************************************************************************)
Item(f, kind, x) == [f |-> f, kind |-> kind, x |-> x]

\* writers.write_tx_input_check: the input's prevout and its sequence.
write_tx_input_check(w, txi) ==
    Append(w, Item("txi", "", <<txi.prev_hash, txi.prev_index, txi.sequence>>))

\* writers.write_tx_output: amount and script_pubkey.
write_tx_output(w, txo_bin) ==
    Append(w, Item("txo", txo_bin.script_pubkey.kind,
                   <<txo_bin.amount>> \o txo_bin.script_pubkey.payload))

\* writers.write_bytes_unchecked of n bytes of extra data: bytes written in
\* two calls hash like the same bytes written in one.
write_extra_data(w, n) ==
    IF n = 0 THEN w
    ELSE IF Len(w) > 0 /\ w[Len(w)].f = "extra_data"
    THEN [w EXCEPT ![Len(w)] = Item("extra_data", "", <<@.x[1] + n>>)]
    ELSE Append(w, Item("extra_data", "", <<n>>))

\* Bitcoin.write_tx_header / Bitcoinlike.write_tx_header
write_tx_header(coin, w, tx, has_segwit) ==
    w \o <<Item("version", "", <<tx.version>>)>>
      \o (IF coin.signer = "Bitcoinlike" /\ coin.timestamp
          THEN <<Item("timestamp", "", <<tx.timestamp>>)>> ELSE <<>>)
      \o (IF has_segwit THEN <<Item("marker", "", <<0>>), Item("flag", "", <<1>>)>>
          ELSE <<>>)

(***************************************************************************)
(* Previous transactions.  The host knows two; a prev_hash is the index of *)
(* the transaction in PrevTxs (0: the hash of no known transaction).       *)
(***************************************************************************)
PrevTxMeta(inputs_cnt, outputs_cnt, extra_data_len) ==
    [ version |-> 1, timestamp |-> 0, lock_time |-> 0, inputs_cnt |-> inputs_cnt,
      outputs_cnt |-> outputs_cnt, extra_data_len |-> extra_data_len ]
PrevOutput(amount) ==
    [amount |-> amount, script_pubkey |-> [kind |-> "p2pkh", payload |-> <<>>]]
PrevTxs ==
    << [meta |-> PrevTxMeta(1, 2, 0),    inputs |-> <<1>>, outputs |-> <<PrevOutput(1), PrevOutput(2)>>],
       [meta |-> PrevTxMeta(1, 1, 1025), inputs |-> <<1>>, outputs |-> <<PrevOutput(2)>>] >>

\* What the host may answer while a previous transaction is streamed.
HostPrevMetas == {PrevTxs[h].meta : h \in DOMAIN PrevTxs}
HostPrevInputs == {1, 2}
HostPrevOutputs == {PrevOutput(1), PrevOutput(2)}

write_prev_input(w, txi) == Append(w, Item("txi", "", <<txi>>))

RECURSIVE write_prev_inputs(_, _)
write_prev_inputs(w, txis) ==
    IF txis = <<>> THEN w
    ELSE write_prev_inputs(write_prev_input(w, Head(txis)), Tail(txis))

RECURSIVE write_prev_outputs(_, _)
write_prev_outputs(w, txos) ==
    IF txos = <<>> THEN w
    ELSE write_prev_outputs(write_tx_output(w, Head(txos)), Tail(txos))

\* The serialization get_prevtx_output_value hashes for a transaction.
PrevTxStream(coin, ptx) ==
    LET header  == write_tx_header(coin, <<>>, ptx.meta, FALSE)
        inputs  == write_prev_inputs(
                       Append(header, Item("varint", "", <<ptx.meta.inputs_cnt>>)),
                       ptx.inputs)
        outputs == write_prev_outputs(
                       Append(inputs, Item("varint", "", <<ptx.meta.outputs_cnt>>)),
                       ptx.outputs)
        footer  == Append(outputs, Item("lock_time", "", <<ptx.meta.lock_time>>))
    IN  IF coin.signer = "Bitcoinlike" /\ coin.extra_data
        THEN write_extra_data(footer, ptx.meta.extra_data_len) ELSE footer

\* writers.get_tx_hash(txh, reverse=True) as a prev_hash.
get_tx_hash(coin, txh) ==
    IF \E h \in DOMAIN PrevTxs : PrevTxStream(coin, PrevTxs[h]) = txh
    THEN CHOOSE h \in DOMAIN PrevTxs : PrevTxStream(coin, PrevTxs[h]) = txh
    ELSE 0

(***************************************************************************)
(* The host.  A host holds a coin, the inputs it may name in a reply to a  *)
(* TXINPUT request and the outputs it may name in a reply to a TXOUTPUT    *)
(* request; it is free to answer any request with any of them, whatever it *)
(* answered before.  Paths are (account, chain, index); account 1 is the   *)
(* pattern validate_full_path recognizes.                                  *)
(***************************************************************************)
P2PKH(id) == Address("base58", "p2pkh", id)
Pay(amount, address) == TxOutput("PAYTOADDRESS", amount, address, <<>>, 0)
Change(script_type, amount, address_n, multisig) ==
    TxOutput(script_type, amount, NoAddress, address_n, multisig)

Hosts ==
  { \* legacy and segwit inputs of one wallet, a payment and two change outputs
    [ coin |-> Bitcoin,
      inputs |-> { TxInput("SPENDADDRESS", 0, <<1, 0, 0>>, 0, 1, 0),
                   WithSequence(TxInput("SPENDWITNESS", 1, <<1, 0, 1>>, 0, 1, 1), 1),
                   TxInput("SPENDWITNESS", 2, <<1, 0, 1>>, 0, 1, 1) },
      outputs |-> { Pay(1, P2PKH(7)),
                    Change("PAYTOADDRESS", 1, <<1, 1, 0>>, 0),
                    Change("PAYTOADDRESS", 0, <<1, 1, 1>>, 0) } ],
    \* legacy inputs spending different previous outputs, one on a foreign path
    [ coin |-> Bitcoin,
      inputs |-> { TxInput("SPENDADDRESS", 0, <<1, 0, 0>>, 0, 1, 1),
                   TxInput("SPENDADDRESS", 0, <<2, 0, 0>>, 0, 2, 0),
                   WithSequence(TxInput("SPENDADDRESS", 0, <<1, 0, 0>>, 0, 1, 2), 1),
                   TxInput("EXTERNAL",     1, <<1, 0, 0>>, 0, 1, 0) },
      outputs |-> { Pay(1, P2PKH(7)),
                    Pay(2, Address("base58", "p2sh", 8)),
                    Pay(1, Address("base58", "other", 9)) } ],
    \* multisig inputs with two fingerprints, multisig and single-key change
    [ coin |-> Bitcoin,
      inputs |-> { TxInput("SPENDWITNESS", 1, <<1, 0, 0>>, 1, 1, 0),
                   TxInput("SPENDWITNESS", 1, <<1, 0, 0>>, 2, 1, 0),
                   TxInput("SPENDWITNESS", 1, <<1, 0, 0>>, 0, 1, 0) },
      outputs |-> { Change("PAYTOWITNESS", 1, <<1, 1, 0>>, 1),
                    Change("PAYTOWITNESS", 1, <<1, 1, 0>>, 0),
                    Change("PAYTOWITNESS", 1, <<1, 2, 0>>, 1) } ],
    \* a coin that forces BIP-143 and has no segwit
    [ coin |-> Bcash,
      inputs |-> { TxInput("SPENDADDRESS",  1, <<1, 0, 0>>, 0, 1, 0),
                   TxInput("SPENDADDRESS",  2, <<1, 0, 0>>, 0, 1, 0),
                   TxInput("SPENDMULTISIG", 0, <<1, 0, 0>>, 1, 1, 0),
                   TxInput("SPENDWITNESS",  1, <<1, 0, 0>>, 0, 1, 0) },
      outputs |-> { Pay(1, Address("cashaddr", "p2pkh", 7)),
                    Pay(1, Address("cashaddr", "other", 8)) } ],
    \* a coin that forces BIP-143 and has segwit
    [ coin |-> Bgold,
      inputs |-> { TxInput("SPENDADDRESS", 1, <<1, 0, 0>>, 0, 1, 0),
                   TxInput("SPENDWITNESS", 1, <<1, 0, 0>>, 0, 1, 1),
                   WithSequence(TxInput("SPENDWITNESS", 2, <<1, 0, 0>>, 0, 2, 0), 1) },
      outputs |-> { Pay(1, P2PKH(7)), Pay(2, P2PKH(7)) } ],
    \* Bitcoin-like coins with and without negative fees
    [ coin |-> Litecoin,
      inputs |-> { TxInput("SPENDWITNESS", 1, <<1, 0, 0>>, 0, 1, 0),
                   TxInput("SPENDWITNESS", 0, <<1, 0, 0>>, 0, 1, 1) },
      outputs |-> { Pay(2, P2PKH(7)), Pay(1, P2PKH(7)),
                    Change("PAYTOWITNESS", 1, <<1, 1, _BIP32_MAX_LAST_ELEMENT + 1>>, 0) } ],
    [ coin |-> Peercoin,
      inputs |-> { TxInput("SPENDADDRESS", 0, <<1, 0, 0>>, 0, 1, 0) },
      outputs |-> { Pay(2, P2PKH(7)), Pay(0, P2PKH(7)) } ],
    \* a coin whose previous transactions carry extra data
    [ coin |-> Komodo,
      inputs |-> { TxInput("SPENDADDRESS", 0, <<1, 0, 0>>, 0, 2, 0) },
      outputs |-> { Pay(1, P2PKH(7)) } ] }

\* addresses.validate_full_path
validate_full_path(address_n) == Len(address_n) = 3 /\ address_n[1] = 1

\* The SignTx messages: inputs_count + outputs_count <= MaxItems.
SignTxs ==
    { [ version |-> 1, timestamp |-> 0, inputs_count |-> n, outputs_count |-> m,
        lock_time |-> l ] : n \in 1..MaxItems, m \in 1..MaxItems, l \in {0, 1} }

(***************************************************************************)
(* State                                                                   *)
(***************************************************************************)
VARIABLES
    coin, tx, host,                \* self.coin, self.tx; the host's knowledge
    pc, i, k,                      \* where the signer is suspended; loop indices
    txi, txo,                      \* the input / output being processed
    wallet_path, multisig_fingerprint,
    segwit, total_in, bip143_in, total_out, change_out, weight,
    h_confirmed, h_check,
    h_sign,                        \* the preimage of the legacy signature
    prev,                          \* get_prevtx_output_value: tx, txh, amount_out, ofs
    serialized_tx, signature,      \* tx_req.serialized
    tx_req,                        \* request_type and tx_req.details
    error,                         \* the exception that ended the session
    host_rx,                       \* what the host has received so far
    first_txi, first_txo,          \* the replies of phases 1 and 2
    trace,                         \* requests, prompts, signatures, phase starts
    silent,                        \* outputs accepted as change without a prompt
    changed,                       \* where a reply differed from the first one
    signed143, bip143_confirmed    \* BIP-143 amounts signed; bip143_in after phase 1

vars == << coin, tx, host, pc, i, k, txi, txo, wallet_path, multisig_fingerprint,
           segwit, total_in, bip143_in, total_out, change_out, weight,
           h_confirmed, h_check, h_sign, prev, serialized_tx, signature, tx_req, error,
           host_rx, first_txi, first_txo, trace, silent, changed, signed143,
           bip143_confirmed >>

NoInput == TxInput("none", 0, <<>>, 0, 0, 0)
NoOutput == TxOutput("none", 0, NoAddress, <<>>, 0)
NoSignature == [index |-> -1, preimage |-> "none", hash_type |-> 0]
NoPrev == [tx |-> PrevTxMeta(0, 0, 0), txh |-> <<>>, amount_out |-> 0, ofs |-> 0,
           requests |-> 0]
NoRequest == [request_type |-> "none", request_index |-> 0, tx_hash |-> 0]

\* Events of the trace.
PhaseStart(p) == [ev |-> "phase", phase |-> p, what |-> "", index |-> 0, item |-> 0, flag |-> FALSE]
RequestEv(p, what, index, item, of_prev) ==
    [ev |-> "request", phase |-> p, what |-> what, index |-> index, item |-> item, flag |-> of_prev]
PromptEv(p, what, item, answer) ==
    [ev |-> "prompt", phase |-> p, what |-> what, index |-> item, item |-> item, flag |-> answer]
SignEv(p, item) ==
    [ev |-> "sign", phase |-> p, what |-> "", index |-> item, item |-> item, flag |-> FALSE]

\* Bitcoin.initialize, and signer() up to its first suspension in step 1.
Init ==
    /\ host \in Hosts
    /\ coin = host.coin
    /\ tx \in {t \in SignTxs : t.inputs_count + t.outputs_count <= MaxItems}
    /\ pc = "step1" /\ i = 0 /\ k = 0
    /\ txi = NoInput /\ txo = NoOutput
    /\ wallet_path = MatchChecker("wallet_path")
    /\ multisig_fingerprint = MatchChecker("multisig")
    /\ segwit = <<>>
    /\ total_in = 0 /\ bip143_in = 0 /\ total_out = 0 /\ change_out = 0 /\ weight = 0
    /\ h_confirmed = <<>> /\ h_check = <<>> /\ h_sign = <<>>
    /\ prev = NoPrev
    /\ serialized_tx = <<>> /\ signature = NoSignature
    /\ tx_req = NoRequest
    /\ error = NoError
    /\ host_rx = [tx |-> <<>>, sigs |-> <<>>]
    /\ first_txi = <<>> /\ first_txo = <<>>
    /\ trace = <<PhaseStart(1)>>
    /\ silent = {}
    /\ changed = {}
    /\ signed143 = 0 /\ bip143_confirmed = 0

(***************************************************************************)
(* Helpers of the actions                                                  *)
(***************************************************************************)
\* helpers.request_tx_*: the TxRequest goes to the host with the serialized
\* chunk and the signature produced since the last request.  The action
\* that uses it sets serialized_tx' and signature' to what is produced
\* after the request.
Deliver ==
    [ tx   |-> host_rx.tx \o serialized_tx,
      sigs |-> host_rx.sigs \o (IF signature = NoSignature THEN <<>> ELSE <<signature>>) ]

Request(request_type, request_index, tx_hash) ==
    /\ tx_req' = [ request_type |-> request_type, request_index |-> request_index,
                   tx_hash |-> tx_hash ]
    /\ host_rx' = Deliver

\* Every entry of the map written so far is overwritten with b.
SetEverySegwit(b) == [x \in DOMAIN segwit \cup {i} |-> b]

\* self.segwit[i] = b
SetSegwit(b) == [x \in DOMAIN segwit \cup {i} |-> IF x = i THEN b ELSE segwit[x]]

\* No input counts as segwit.
NoSegwit(sw) == FALSE

\* True in self.segwit.values()
AnySegwit(sw) == \E x \in DOMAIN sw : sw[x]

\* The exception e ends the session.
Raised(e, tr) == error' = e /\ pc' = "failed" /\ trace' = tr

\* A classification that sends every non-segwit input to the previous
\* transaction, whatever the coin.
process_input_class_unforced(c, t) ==
    LET r(e, sw, amount, prevtx) ==
            [error |-> e, segwit |-> sw, amount |-> amount, prevtx |-> prevtx]
    IN  IF input_is_segwit(t)
        THEN IF c.signer = "Bitcoinlike" /\ ~c.segwit
             THEN r(SigningError("DataError", "Segwit not enabled on this coin"), FALSE, 0, FALSE)
             ELSE IF t.amount = 0
             THEN r(SigningError("DataError", "Segwit input without amount"), FALSE, 0, FALSE)
             ELSE r(NoError, TRUE, t.amount, FALSE)
        ELSE IF input_is_nonsegwit(t)
        THEN r(NoError, FALSE, 0, TRUE)
        ELSE r(SigningError("DataError", "Wrong input script type"), FALSE, 0, FALSE)

\* A classification that accepts every input with the amount it states.
process_input_class_any(c, t) ==
    [error |-> NoError, segwit |-> input_is_segwit(t), amount |-> t.amount, prevtx |-> FALSE]

\* process_input after the path check: what the input's class does.
\*   Bitcoin.process_segwit_input / Bitcoinlike.process_segwit_input,
\*   Bitcoin.process_nonsegwit_input / Bitcoinlike.process_nonsegwit_input,
\*   Bitcoinlike.process_bip143_input.
\* prevtx: the amount comes from get_prevtx_output_value.
process_input_class(c, t) ==
    LET r(e, sw, amount, prevtx) ==
            [error |-> e, segwit |-> sw, amount |-> amount, prevtx |-> prevtx]
    IN  IF input_is_segwit(t)
        THEN IF c.signer = "Bitcoinlike" /\ ~c.segwit
             THEN r(SigningError("DataError", "Segwit not enabled on this coin"), FALSE, 0, FALSE)
             ELSE IF t.amount = 0
             THEN r(SigningError("DataError", "Segwit input without amount"), FALSE, 0, FALSE)
             ELSE r(NoError, TRUE, t.amount, FALSE)
        ELSE IF input_is_nonsegwit(t)
        THEN IF c.signer = "Bitcoinlike" /\ c.force_bip143
             THEN IF t.amount = 0
                  THEN r(SigningError("DataError", "Expected input with amount"), FALSE, 0, FALSE)
                  ELSE r(NoError, FALSE, t.amount, FALSE)
             ELSE r(NoError, FALSE, 0, TRUE)
        ELSE r(SigningError("DataError", "Wrong input script type"), FALSE, 0, FALSE)

\* step1_process_inputs: the loop moves on to input i + 1, or step 2 starts.
NextInput1(tr, new_bip143_in) ==
    IF i + 1 < tx.inputs_count
    THEN pc' = "step1" /\ i' = i + 1 /\ trace' = tr /\ UNCHANGED bip143_confirmed
    ELSE /\ pc' = "step2" /\ i' = 0 /\ trace' = Append(tr, PhaseStart(2))
         /\ bip143_confirmed' = new_bip143_in

\* process_input from the classification on.
ProcessInput(t, tr) ==
    LET c == process_input_class(coin, t) IN
    IF c.error # NoError
    THEN /\ Raised(c.error, tr)
         /\ UNCHANGED <<i, segwit, total_in, bip143_in, bip143_confirmed>>
    ELSE IF c.prevtx
    THEN /\ segwit' = SetSegwit(FALSE)
         /\ pc' = "prev_meta" /\ trace' = tr
         /\ UNCHANGED <<i, total_in, bip143_in, bip143_confirmed, error>>
    ELSE /\ segwit' = SetSegwit(c.segwit)
         /\ bip143_in' = bip143_in + c.amount
         /\ total_in' = total_in + c.amount
         /\ NextInput1(tr, bip143_in + c.amount)
         /\ UNCHANGED error

(***************************************************************************)
(* Phase 1: step1_process_inputs                                           *)
(***************************************************************************)
\* request_tx_input(i); weight.add_input; process_input up to its first await.
Step1RequestInput ==
    /\ pc = "step1"
    /\ \E t \in host.inputs :
         LET wp == add_input("wallet_path", wallet_path, t)
             mf == add_input("multisig", multisig_fingerprint, t)
             tr == Append(trace, RequestEv(1, "TXINPUT", i, i, FALSE))
         IN  /\ Request("TXINPUT", i, 0)
             /\ serialized_tx' = <<>> /\ signature' = NoSignature
             /\ first_txi' = Append(first_txi, t)
             /\ weight' = weight + 4
             /\ txi' = t
             /\ wallet_path' = wp.checker
             /\ IF ~wp.ok \/ ~mf.ok
                THEN /\ Raised(AssertionError, tr)
                     /\ UNCHANGED << multisig_fingerprint, h_confirmed, i, segwit,
                                     total_in, bip143_in, bip143_confirmed >>
                ELSE /\ multisig_fingerprint' = mf.checker
                     /\ h_confirmed' = write_tx_input_check(h_confirmed, t)
                     /\ IF ~validate_full_path(t.address_n)
                        THEN /\ pc' = "confirm_foreign_address" /\ trace' = tr
                             /\ UNCHANGED << i, segwit, total_in, bip143_in,
                                             bip143_confirmed, error >>
                        ELSE ProcessInput(t, tr)
    /\ UNCHANGED << coin, tx, host, k, txo, total_out, change_out, h_check, h_sign, prev,
                    first_txo, silent, changed, signed143 >>

\* helpers.confirm_foreign_address returns; process_input goes on.
ConfirmForeignAddress ==
    /\ pc = "confirm_foreign_address"
    /\ \E answer \in BOOLEAN :
         ProcessInput(txi, Append(trace, PromptEv(1, "confirm_foreign_address", i, answer)))
    /\ UNCHANGED << coin, tx, host, k, txi, txo, wallet_path, multisig_fingerprint,
                    total_out, change_out, weight, h_confirmed, h_check, h_sign, prev,
                    serialized_tx, signature, tx_req, host_rx, first_txi, first_txo,
                    silent, changed, signed143 >>

(***************************************************************************)
(* get_prevtx_output_value(txi.prev_hash, txi.prev_index)                  *)
(***************************************************************************)
ExtraDataChunk == 1024

\* An end of get_prevtx_output_value that does not compare the hash.
PrevFinishUnchecked(txh, amount_out, tr) ==
    /\ total_in' = total_in + amount_out
    /\ NextInput1(tr, bip143_in)
    /\ UNCHANGED error

\* The previous transaction is streamed: compare its hash, add the amount.
PrevFinish(txh, amount_out, tr) ==
    IF get_tx_hash(coin, txh) # txi.prev_hash
    THEN /\ Raised(SigningError("ProcessError", "Encountered invalid prev_hash"), tr)
         /\ UNCHANGED <<i, total_in, bip143_confirmed>>
    ELSE /\ total_in' = total_in + amount_out
         /\ NextInput1(tr, bip143_in)
         /\ UNCHANGED error

\* Bitcoin.write_prev_tx_footer, and Bitcoinlike.write_prev_tx_footer up to
\* its first request; then the end of get_prevtx_output_value.
PrevFooter(txh, amount_out, tr) ==
    LET w == Append(txh, Item("lock_time", "", <<prev.tx.lock_time>>)) IN
    IF coin.signer = "Bitcoinlike" /\ coin.extra_data /\ 0 < prev.tx.extra_data_len
    THEN /\ prev' = [prev EXCEPT !.txh = w, !.amount_out = amount_out, !.ofs = 0]
         /\ pc' = "prev_extra_data" /\ trace' = tr
         /\ UNCHANGED <<i, total_in, bip143_confirmed, error>>
    ELSE /\ prev' = [prev EXCEPT !.txh = w, !.amount_out = amount_out]
         /\ PrevFinish(w, amount_out, tr)

PrevUnchanged ==
    UNCHANGED << coin, tx, host, txi, txo, wallet_path, multisig_fingerprint,
                 segwit, bip143_in, total_out, change_out, weight, h_confirmed,
                 h_check, h_sign, first_txi, first_txo, silent, changed, signed143 >>

\* request_tx_meta
PrevRequestMeta ==
    /\ pc = "prev_meta"
    /\ \E m \in HostPrevMetas :
         LET tr == Append(trace, RequestEv(1, "TXMETA", 0, i, TRUE))
             header == Append(write_tx_header(coin, <<>>, m, FALSE),
                              Item("varint", "", <<m.inputs_cnt>>))
         IN  /\ Request("TXMETA", 0, txi.prev_hash)
             /\ serialized_tx' = <<>> /\ signature' = NoSignature
             /\ IF m.outputs_cnt <= txi.prev_index
                THEN /\ Raised(SigningError("ProcessError",
                                   "Not enough outputs in previous transaction."), tr)
                     /\ UNCHANGED <<prev, k>>
                ELSE /\ k' = 0 /\ trace' = tr /\ error' = error
                     /\ IF m.inputs_cnt > 0
                        THEN /\ pc' = "prev_input"
                             /\ prev' = [ tx |-> m, txh |-> header, amount_out |-> 0,
                                          ofs |-> 0, requests |-> 0 ]
                        ELSE /\ pc' = "prev_output"
                             /\ prev' = [ tx |-> m, amount_out |-> 0, ofs |-> 0,
                                          requests |-> 0,
                                          txh |-> Append(header,
                                              Item("varint", "", <<m.outputs_cnt>>)) ]
    /\ UNCHANGED <<i, total_in, bip143_confirmed>>
    /\ PrevUnchanged

\* request_tx_input(i, prev_hash)
PrevRequestInput ==
    /\ pc = "prev_input"
    /\ \E pi \in HostPrevInputs :
         LET w == write_prev_input(prev.txh, pi) IN
         /\ Request("TXINPUT", k, txi.prev_hash)
         /\ serialized_tx' = <<>> /\ signature' = NoSignature
         /\ trace' = Append(trace, RequestEv(1, "TXINPUT", k, i, TRUE))
         /\ IF k + 1 < prev.tx.inputs_cnt
            THEN pc' = pc /\ k' = k + 1 /\ prev' = [prev EXCEPT !.txh = w]
            ELSE /\ pc' = "prev_output" /\ k' = 0
                 /\ prev' = [prev EXCEPT !.txh =
                               Append(w, Item("varint", "", <<prev.tx.outputs_cnt>>))]
    /\ UNCHANGED <<i, total_in, bip143_confirmed, error>>
    /\ PrevUnchanged

\* request_tx_output(i, prev_hash); after the last one the footer.
PrevRequestOutput ==
    /\ pc = "prev_output"
    /\ \E po \in HostPrevOutputs :
         LET w == write_tx_output(prev.txh, po)
             amount_out == IF k = txi.prev_index THEN po.amount ELSE prev.amount_out
             tr == Append(trace, RequestEv(1, "TXOUTPUT", k, i, TRUE))
         IN  /\ Request("TXOUTPUT", k, txi.prev_hash)
             /\ serialized_tx' = <<>> /\ signature' = NoSignature
             /\ IF k + 1 < prev.tx.outputs_cnt
                THEN /\ pc' = pc /\ k' = k + 1 /\ trace' = tr
                     /\ prev' = [prev EXCEPT !.txh = w, !.amount_out = amount_out]
                     /\ UNCHANGED <<i, total_in, bip143_confirmed, error>>
                ELSE /\ k' = 0
                     /\ PrevFooter(w, amount_out, tr)
    /\ PrevUnchanged

\* request_tx_extra_data(ofs, size, prev_hash): the host returns data of a
\* length of its choice.  prev.requests counts the requests of the loop.
PrevRequestExtraData ==
    /\ pc = "prev_extra_data"
    /\ prev.requests < MaxExtraDataRequests
    /\ LET size == IF prev.tx.extra_data_len - prev.ofs < ExtraDataChunk
                   THEN prev.tx.extra_data_len - prev.ofs ELSE ExtraDataChunk
       IN  \E len \in {0, size} :
             LET w == write_extra_data(prev.txh, len)
                 ofs == prev.ofs + len
             IN  /\ Request("TXEXTRADATA", prev.ofs, txi.prev_hash)
                 /\ serialized_tx' = <<>> /\ signature' = NoSignature
                 /\ prev' = [prev EXCEPT !.txh = w, !.ofs = ofs, !.requests = @ + 1]
                 /\ IF ofs < prev.tx.extra_data_len
                    THEN /\ pc' = pc
                         /\ UNCHANGED <<i, total_in, bip143_confirmed, error, trace>>
                    ELSE PrevFinish(w, prev.amount_out, trace)
    /\ UNCHANGED k
    /\ PrevUnchanged

(***************************************************************************)
(* Phase 2: step2_confirm_outputs, and step3_confirm_tran up to its first  *)
(* prompt                                                                  *)
(***************************************************************************)
\* fee > (coin.maxfee_kb / 1000) * (weight.get_total() / 4), in integers.
\* The weight calculator counts 4 units for every input and output added.
FeeOverThreshold(c, fee, w) == fee * 1000 * 4 > c.maxfee_kb * w

\* An on_negative_fee that never raises.
NeverRaises(c) == FALSE

\* on_negative_fee raises, for Bitcoin always and for Bitcoinlike unless
\* coin.negative_fee.
on_negative_fee_raises(c) == ~(c.signer = "Bitcoinlike" /\ c.negative_fee)

\* The total is asked right after the fee-over-threshold prompt.
TotalAfterFeePrompt == "confirm_total"

\* The prompt step3_confirm_tran asks after the fee-over-threshold one.
AfterFeePrompt == IF tx.lock_time > 0 THEN "confirm_nondefault_locktime" ELSE "confirm_total"

\* A step 3 that asks nothing.
SkipStep3(new_total_out, new_weight, tr) ==
    trace' = Append(tr, PhaseStart(3)) /\ error' = error /\ pc' = "step4"

\* step3_confirm_tran from its start to its first prompt.
EnterStep3(new_total_out, new_weight, tr) ==
    LET fee == total_in - new_total_out
        tr3 == Append(tr, PhaseStart(3))
    IN  IF fee < 0 /\ on_negative_fee_raises(coin)
        THEN Raised(SigningError("NotEnoughFunds", "Not enough funds"), tr3)
        ELSE /\ trace' = tr3 /\ error' = error
             /\ pc' = IF FeeOverThreshold(coin, fee, new_weight)
                      THEN "confirm_feeoverthreshold" ELSE AfterFeePrompt

\* confirm_output after the prompt or the change test: the output is folded
\* into h_confirmed and total_out; the loop moves on, or step 3 starts.
OutputConfirmed(o, new_weight, tr) ==
    /\ h_confirmed' = write_tx_output(h_confirmed, TxOutputBin(coin, o))
    /\ total_out' = total_out + o.amount
    /\ IF i + 1 < tx.outputs_count
       THEN pc' = "step2" /\ i' = i + 1 /\ trace' = tr /\ error' = error
       ELSE i' = 0 /\ EnterStep3(total_out + o.amount, new_weight, tr)

\* request_tx_output(i); output_derive_script; weight.add_output;
\* confirm_output up to its prompt.
Step2RequestOutput ==
    /\ pc = "step2"
    /\ \E o \in host.outputs :
         LET tr == Append(trace, RequestEv(2, "TXOUTPUT", i, i, FALSE))
             script == output_derive_script(coin, o)
             change == output_is_change(wallet_path, multisig_fingerprint, o)
         IN  /\ Request("TXOUTPUT", i, 0)
             /\ serialized_tx' = <<>> /\ signature' = NoSignature
             /\ first_txo' = Append(first_txo, o)
             /\ txo' = o
             /\ IF script.error # NoError
                THEN /\ Raised(script.error, tr)
                     /\ UNCHANGED << i, weight, wallet_path, multisig_fingerprint,
                                     change_out, silent, h_confirmed, total_out >>
                ELSE /\ weight' = weight + 4
                     /\ IF change_out = 0
                        THEN /\ wallet_path' = change.wallet_path
                             /\ multisig_fingerprint' = change.multisig_fingerprint
                        ELSE UNCHANGED <<wallet_path, multisig_fingerprint>>
                     /\ IF change_out = 0 /\ change.result
                        THEN /\ change_out' = o.amount
                             /\ silent' = silent \cup {i}
                             /\ OutputConfirmed(o, weight + 4, tr)
                        ELSE /\ pc' = "confirm_output" /\ trace' = tr
                             /\ UNCHANGED << i, change_out, silent, h_confirmed,
                                             total_out, error >>
    /\ UNCHANGED << coin, tx, host, k, txi, segwit, total_in, bip143_in, h_check, h_sign,
                    prev, first_txi, changed, signed143, bip143_confirmed >>

PromptUnchanged ==
    UNCHANGED << coin, tx, host, txi, txo, wallet_path, multisig_fingerprint,
                 segwit, total_in, bip143_in, change_out, weight, prev, signature,
                 tx_req, host_rx, first_txi, first_txo, silent, changed, signed143,
                 bip143_confirmed >>

\* helpers.confirm_output returns.
ConfirmOutput ==
    /\ pc = "confirm_output"
    /\ \E answer \in BOOLEAN :
         LET tr == Append(trace, PromptEv(2, "confirm_output", i, answer)) IN
         IF ~answer
         THEN /\ Raised(SigningError("ActionCancelled", "Output cancelled"), tr)
              /\ UNCHANGED <<i, h_confirmed, total_out>>
         ELSE OutputConfirmed(txo, weight, tr)
    /\ UNCHANGED <<k, h_check, h_sign, serialized_tx>>
    /\ PromptUnchanged

(***************************************************************************)
(* Phase 3: the prompts of step3_confirm_tran                              *)
(***************************************************************************)
\* helpers.confirm_feeoverthreshold returns.
ConfirmFeeOverThreshold ==
    /\ pc = "confirm_feeoverthreshold"
    /\ \E answer \in BOOLEAN :
         LET tr == Append(trace, PromptEv(3, "confirm_feeoverthreshold", 0, answer)) IN
         IF ~answer
         THEN Raised(SigningError("ActionCancelled", "Signing cancelled"), tr)
         ELSE pc' = AfterFeePrompt /\ trace' = tr /\ error' = error
    /\ UNCHANGED <<i, k, h_confirmed, h_check, h_sign, total_out, serialized_tx>>
    /\ PromptUnchanged

\* helpers.confirm_nondefault_locktime returns.
ConfirmNondefaultLocktime ==
    /\ pc = "confirm_nondefault_locktime"
    /\ \E answer \in BOOLEAN :
         LET tr == Append(trace, PromptEv(3, "confirm_nondefault_locktime", 0, answer)) IN
         IF ~answer
         THEN Raised(SigningError("ActionCancelled", "Locktime cancelled"), tr)
         ELSE pc' = "confirm_total" /\ trace' = tr /\ error' = error
    /\ UNCHANGED <<i, k, h_confirmed, h_check, h_sign, total_out, serialized_tx>>
    /\ PromptUnchanged

\* Bitcoin.write_sign_tx_header
write_sign_tx_header(c, w, t, has_segwit) ==
    Append(write_tx_header(c, w, t, has_segwit), Item("varint", "", <<t.inputs_count>>))

\* helpers.confirm_total returns; on acceptance step 4 starts and writes the
\* header.  The prompt shows total_in - change_out and the fee.
ConfirmTotal ==
    /\ pc = "confirm_total"
    /\ \E answer \in BOOLEAN :
         LET tr == Append(trace, [ ev |-> "prompt", phase |-> 3, what |-> "confirm_total",
                                   index |-> total_in - change_out,
                                   item |-> total_in - total_out, flag |-> answer ])
         IN  IF ~answer
             THEN /\ Raised(SigningError("ActionCancelled", "Total cancelled"), tr)
                  /\ UNCHANGED serialized_tx
             ELSE /\ pc' = "step4" /\ trace' = Append(tr, PhaseStart(4)) /\ error' = error
                  /\ serialized_tx' =
                       write_sign_tx_header(coin, serialized_tx, tx, AnySegwit(segwit))
    /\ UNCHANGED <<i, k, h_confirmed, h_check, h_sign, total_out>>
    /\ PromptUnchanged

(***************************************************************************)
(* Phase 4: step4_serialize_inputs                                         *)
(***************************************************************************)
\* a | b of two naturals
RECURSIVE BitOr(_, _)
BitOr(a, b) ==
    IF a = 0 THEN b
    ELSE IF b = 0 THEN a
    ELSE (IF a % 2 = 1 \/ b % 2 = 1 THEN 1 ELSE 0) + 2 * BitOr(a \div 2, b \div 2)

\* a << n
RECURSIVE ShiftLeft(_, _)
ShiftLeft(a, n) == IF n = 0 THEN a ELSE ShiftLeft(2 * a, n - 1)

SIGHASH_ALL == 1
SIGHASH_FORKID == 64

\* A hash type that takes the fork_id 0 for no fork_id.
get_hash_type_if_fork_id(c) ==
    IF c.signer = "Bitcoinlike" /\ c.fork_id > 0
    THEN BitOr(SIGHASH_ALL, BitOr(ShiftLeft(c.fork_id, 8), SIGHASH_FORKID))
    ELSE SIGHASH_ALL

\* Bitcoin.get_hash_type / Bitcoinlike.get_hash_type; fork_id -1 is None.
get_hash_type(c) ==
    IF c.signer = "Bitcoinlike" /\ c.fork_id # -1
    THEN BitOr(SIGHASH_ALL, BitOr(ShiftLeft(c.fork_id, 8), SIGHASH_FORKID))
    ELSE SIGHASH_ALL

\* Bitcoin.input_derive_script; the signing key is taken to be one of the
\* multisig's keys.  The scripts that hold a signature hold the hash type.
input_derive_script(t) ==
    LET s(kind) == Return([kind |-> kind, payload |-> <<>>])
        signed(kind) == Return([kind |-> kind, payload |-> <<get_hash_type(coin)>>])
    IN
    CASE t.script_type = "SPENDADDRESS" -> signed("p2pkh_or_p2sh")
      [] t.script_type = "SPENDP2SHWITNESS" ->
           IF t.multisig # 0 THEN s("p2wsh_in_p2sh") ELSE s("p2wpkh_in_p2sh")
      [] t.script_type = "SPENDWITNESS" -> s("native_p2wpkh_or_p2wsh")
      [] t.script_type = "SPENDMULTISIG" -> signed("multisig")
      [] OTHER -> Raise(SigningError("ProcessError", "Invalid script type"))

\* An input written with the default sequence number.
write_tx_input_default_sequence(w, t, script_sig) ==
    Append(w, Item("txi", script_sig.kind,
                   <<t.prev_hash, t.prev_index, 0>> \o script_sig.payload))

\* writers.write_tx_input: prev_hash, prev_index, sequence and script_sig.
write_tx_input(w, t, script_sig) ==
    Append(w, Item("txi", script_sig.kind,
                   <<t.prev_hash, t.prev_index, t.sequence>> \o script_sig.payload))

\* ecdsa_sign of a digest, recorded as what was signed (the kind of the
\* preimage and the hash type it ends with) and for which input.
Signature(index, preimage) ==
    [index |-> index, preimage |-> preimage, hash_type |-> get_hash_type(coin)]

\* A comparison of the control digests that never fails.
NeverDiffers(confirmed, check) == FALSE

\* The control digests differ (the hash is ideal).
DigestsDiffer(confirmed, check) == confirmed # check

\* A check of the amount that never fails.
NeverExceeds(amount, remaining) == FALSE

\* The amount of a BIP-143 input exceeds what is left of bip143_in.
ExceedsBip143(amount, remaining) == amount > remaining

\* The host's reply differs from the one of phase 1 / phase 2.
Differs(what, first, index, reply) ==
    IF first[index + 1] # reply THEN {what} ELSE {}

\* The reply changes what h_check hashes, against the reply of phase 1 / 2.
HashedDiffers(first, reply) == IF first # reply THEN {"h_check"} ELSE {}

SignUnchanged ==
    UNCHANGED << coin, tx, host, wallet_path, multisig_fingerprint, segwit,
                 total_in, total_out, change_out, weight, h_confirmed, prev,
                 first_txi, first_txo, silent, bip143_confirmed >>

\* A loop of step 4 that does not advance.
RepeatInput4(ser, tr) ==
    pc' = "step4" /\ i' = i /\ serialized_tx' = ser /\ trace' = tr

\* step4_serialize_inputs: the loop moves on to input i + 1, or step 5
\* starts and writes the number of outputs.
NextInput4(ser, tr) ==
    IF i + 1 < tx.inputs_count
    THEN pc' = "step4" /\ i' = i + 1 /\ serialized_tx' = ser /\ trace' = tr
    ELSE /\ pc' = "step5" /\ i' = 0
         /\ serialized_tx' = Append(ser, Item("varint", "", <<tx.outputs_count>>))
         /\ trace' = Append(tr, PhaseStart(5))

\* Bitcoin.serialize_segwit_input
SerializeSegwitInput ==
    /\ pc = "step4" /\ segwit[i]
    /\ \E t \in host.inputs :
         LET tr == Append(trace, RequestEv(4, "TXINPUT", i, i, FALSE)) IN
         /\ Request("TXINPUT", i, 0)
         /\ signature' = NoSignature
         /\ txi' = t
         /\ changed' = changed \cup Differs("serialize_segwit_input", first_txi, i, t)
         /\ IF ~input_is_segwit(t) \/ ~check_input("wallet_path", wallet_path, t)
            THEN /\ Raised(ChangedDuringSigning, tr)
                 /\ serialized_tx' = <<>>
                 /\ UNCHANGED i
            ELSE /\ NextInput4(write_tx_input(<<>>, t, input_derive_script(t).value), tr)
                 /\ error' = error
    /\ UNCHANGED <<k, txo, bip143_in, h_check, h_sign, signed143>>
    /\ SignUnchanged

\* Bitcoinlike.sign_nonsegwit_input with coin.force_bip143:
\* Bitcoinlike.sign_bip143_input
SignBip143Input ==
    /\ pc = "step4" /\ ~segwit[i]
    /\ coin.signer = "Bitcoinlike" /\ coin.force_bip143
    /\ \E t \in host.inputs :
         LET tr == Append(trace, RequestEv(4, "TXINPUT", i, i, FALSE))
             is_bip143 == t.script_type \in {"SPENDADDRESS", "SPENDMULTISIG"}
         IN
         /\ Request("TXINPUT", i, 0)
         /\ txi' = t
         /\ changed' = changed \cup Differs("sign_bip143_input", first_txi, i, t)
         /\ IF \/ ~check_input("wallet_path", wallet_path, t)
               \/ ~check_input("multisig", multisig_fingerprint, t)
               \/ ~is_bip143
               \/ ExceedsBip143(t.amount, bip143_in)
            THEN /\ Raised(ChangedDuringSigning, tr)
                 /\ serialized_tx' = <<>> /\ signature' = NoSignature
                 /\ UNCHANGED <<i, bip143_in, signed143>>
            ELSE /\ bip143_in' = bip143_in - t.amount
                 /\ signed143' = signed143 + t.amount
                 /\ signature' = Signature(i, "bip143")
                 /\ NextInput4(write_tx_input(<<>>, t, input_derive_script(t).value),
                               Append(tr, SignEv(4, i)))
                 /\ error' = error
    /\ UNCHANGED <<k, txo, h_check, h_sign>>
    /\ SignUnchanged

\* Bitcoin.sign_nonsegwit_input: the script_sig an input has in h_sign, the
\* script it spends for the input to sign and none for the others.
sign_script_sig(t, is_sign) ==
    LET s(kind) == Return([kind |-> kind, payload |-> <<>>]) IN
    IF ~is_sign THEN s("")
    ELSE IF t.script_type = "SPENDMULTISIG" THEN s("output_script_multisig")
    ELSE IF t.script_type = "SPENDADDRESS" THEN s("output_script_p2pkh")
    ELSE Raise(SigningError("ProcessError", "Unknown transaction type"))

\* Bitcoin.sign_nonsegwit_input, one request of its loop over the inputs.
SignNonsegwitRequestInput ==
    /\ \/ pc = "step4" /\ ~segwit[i] /\ ~(coin.signer = "Bitcoinlike" /\ coin.force_bip143)
       \/ pc = "sign_inputs"
    /\ \E t \in host.inputs :
         LET kk == IF pc = "step4" THEN 0 ELSE k
             check == IF pc = "step4" THEN <<>> ELSE h_check
             sign == IF pc = "step4" THEN write_sign_tx_header(coin, <<>>, tx, FALSE)
                     ELSE h_sign
             tr == Append(trace, RequestEv(4, "TXINPUT", kk, i, FALSE))
         IN
         /\ Request("TXINPUT", kk, 0)
         /\ serialized_tx' = <<>> /\ signature' = NoSignature
         /\ h_check' = write_tx_input_check(check, t)
         /\ h_sign' = IF kk = i /\ ( \/ ~check_input("wallet_path", wallet_path, t)
                                     \/ ~check_input("multisig", multisig_fingerprint, t)
                                     \/ sign_script_sig(t, TRUE).error # NoError )
                      THEN sign
                      ELSE LET w == write_tx_input(sign, t, sign_script_sig(t, kk = i).value)
                           IN  IF kk + 1 < tx.inputs_count THEN w
                               ELSE Append(w, Item("varint", "", <<tx.outputs_count>>))
         /\ changed' = changed \cup Differs("sign_nonsegwit_input", first_txi, kk, t)
                              \cup HashedDiffers(write_tx_input_check(<<>>, first_txi[kk + 1]),
                                                 write_tx_input_check(<<>>, t))
         /\ txi' = IF kk = i THEN t ELSE txi
         /\ IF kk = i /\ ( \/ ~check_input("wallet_path", wallet_path, t)
                           \/ ~check_input("multisig", multisig_fingerprint, t) )
            THEN Raised(ChangedDuringSigning, tr) /\ k' = kk
            ELSE IF kk = i /\ sign_script_sig(t, TRUE).error # NoError
            THEN Raised(sign_script_sig(t, TRUE).error, tr) /\ k' = kk
            ELSE /\ trace' = tr /\ error' = error
                 /\ IF kk + 1 < tx.inputs_count
                    THEN pc' = "sign_inputs" /\ k' = kk + 1
                    ELSE pc' = "sign_outputs" /\ k' = 0
    /\ UNCHANGED <<i, txo, bip143_in, signed143>>
    /\ SignUnchanged

\* Bitcoin.sign_nonsegwit_input, one request of its loop over the outputs,
\* and after the last one the comparison of the digests and the signature.
SignNonsegwitRequestOutput ==
    /\ pc = "sign_outputs"
    /\ \E o \in host.outputs :
         LET tr == Append(trace, RequestEv(4, "TXOUTPUT", k, i, FALSE))
             script == output_derive_script(coin, o)
             check == write_tx_output(h_check, TxOutputBin(coin, o))
         IN
         /\ Request("TXOUTPUT", k, 0)
         /\ txo' = o
         /\ changed' = changed \cup Differs("sign_nonsegwit_output", first_txo, k, o)
                              \cup HashedDiffers(write_tx_output(<<>>, TxOutputBin(coin, first_txo[k + 1])),
                                                 write_tx_output(<<>>, TxOutputBin(coin, o)))
         /\ IF script.error # NoError
            THEN /\ Raised(script.error, tr)
                 /\ serialized_tx' = <<>> /\ signature' = NoSignature
                 /\ UNCHANGED <<i, k, h_check, h_sign>>
            ELSE /\ h_check' = check
                 /\ h_sign' = LET w == write_tx_output(h_sign, TxOutputBin(coin, o)) IN
                              IF k + 1 < tx.outputs_count THEN w
                              ELSE w \o << Item("lock_time", "", <<tx.lock_time>>),
                                           Item("hash_type", "", <<get_hash_type(coin)>>) >>
                 /\ IF k + 1 < tx.outputs_count
                    THEN /\ pc' = "sign_outputs" /\ k' = k + 1
                         /\ trace' = tr /\ error' = error
                         /\ serialized_tx' = <<>> /\ signature' = NoSignature
                         /\ UNCHANGED i
                    ELSE IF DigestsDiffer(h_confirmed, check)
                    THEN /\ Raised(ChangedDuringSigning, tr)
                         /\ serialized_tx' = <<>> /\ signature' = NoSignature
                         /\ UNCHANGED <<i, k>>
                    ELSE /\ signature' = Signature(i, "legacy")
                         /\ k' = 0
                         /\ NextInput4(write_tx_input(<<>>, txi, input_derive_script(txi).value),
                                       Append(tr, SignEv(4, i)))
                         /\ error' = error
    /\ UNCHANGED <<txi, bip143_in, signed143>>
    /\ SignUnchanged

(***************************************************************************)
(* Phases 5 to 7: step5_serialize_outputs, step6_sign_segwit_inputs,       *)
(* step7_finish                                                            *)
(***************************************************************************)
\* The first segwit input at or after index from, or inputs_count.
NextSegwitFrom(from) ==
    LET S == {j \in from..(tx.inputs_count - 1) : segwit[j]} IN
    IF S = {} THEN tx.inputs_count ELSE CHOOSE j \in S : \A x \in S : j <= x

\* self.serialized_tx.append(0) for each of the count non-segwit inputs
\* passed over, when any input is segwit.
EmptyWitnesses(count) ==
    IF AnySegwit(segwit) THEN [x \in 1..count |-> Item("witness", "empty", <<>>)] ELSE <<>>

\* A footer that writes nothing.
NoFooter(w) == w

\* Bitcoin.write_sign_tx_footer
write_sign_tx_footer(w) == Append(w, Item("lock_time", "", <<tx.lock_time>>))

\* step6_sign_segwit_inputs from input index from to its next request; when
\* there is none, step7_finish up to its request.
Step6From(from, ser, tr) ==
    LET j == NextSegwitFrom(from)
        ser6 == ser \o EmptyWitnesses(j - from)
    IN  IF j < tx.inputs_count
        THEN pc' = "step6" /\ i' = j /\ serialized_tx' = ser6 /\ trace' = tr
        ELSE /\ pc' = "step7" /\ i' = 0
             /\ serialized_tx' = write_sign_tx_footer(ser6)
             /\ trace' = Append(tr, PhaseStart(7))

\* Bitcoin.serialize_output
SerializeOutput ==
    /\ pc = "step5"
    /\ \E o \in host.outputs :
         LET tr == Append(trace, RequestEv(5, "TXOUTPUT", i, i, FALSE))
             script == output_derive_script(coin, o)
         IN
         /\ Request("TXOUTPUT", i, 0)
         /\ signature' = NoSignature
         /\ txo' = o
         /\ changed' = changed \cup Differs("serialize_output", first_txo, i, o)
         /\ IF script.error # NoError
            THEN /\ Raised(script.error, tr)
                 /\ serialized_tx' = <<>>
                 /\ UNCHANGED i
            ELSE /\ error' = error
                 /\ IF i + 1 < tx.outputs_count
                    THEN /\ pc' = "step5" /\ i' = i + 1 /\ trace' = tr
                         /\ serialized_tx' = write_tx_output(<<>>, TxOutputBin(coin, o))
                    ELSE Step6From(0, write_tx_output(<<>>, TxOutputBin(coin, o)),
                                   Append(tr, PhaseStart(6)))
    /\ UNCHANGED <<k, txi, bip143_in, h_check, h_sign, signed143>>
    /\ SignUnchanged

\* Bitcoin.sign_segwit_input
SignSegwitInput ==
    /\ pc = "step6"
    /\ \E t \in host.inputs :
         LET tr == Append(trace, RequestEv(6, "TXINPUT", i, i, FALSE))
             witness == Item("witness", IF t.multisig # 0 THEN "p2wsh" ELSE "p2wpkh",
                             <<get_hash_type(coin)>>)
         IN
         /\ Request("TXINPUT", i, 0)
         /\ txi' = t
         /\ changed' = changed \cup Differs("sign_segwit_input", first_txi, i, t)
         /\ IF \/ ~check_input("wallet_path", wallet_path, t)
               \/ ~check_input("multisig", multisig_fingerprint, t)
               \/ ~input_is_segwit(t)
               \/ ExceedsBip143(t.amount, bip143_in)
            THEN /\ Raised(ChangedDuringSigning, tr)
                 /\ serialized_tx' = <<>> /\ signature' = NoSignature
                 /\ UNCHANGED <<i, bip143_in, signed143>>
            ELSE /\ bip143_in' = bip143_in - t.amount
                 /\ signed143' = signed143 + t.amount
                 /\ signature' = Signature(i, "bip143")
                 /\ Step6From(i + 1, <<witness>>, Append(tr, SignEv(6, i)))
                 /\ error' = error
    /\ UNCHANGED <<k, txo, h_check, h_sign>>
    /\ SignUnchanged

\* step7_finish: request_tx_finish
Step7Finish ==
    /\ pc = "step7"
    /\ Request("TXFINISHED", 0, 0)
    /\ serialized_tx' = <<>> /\ signature' = NoSignature
    /\ pc' = "done"
    /\ trace' = Append(trace, RequestEv(7, "TXFINISHED", 0, 0, FALSE))
    /\ UNCHANGED <<i, k, txi, txo, bip143_in, h_check, h_sign, error, changed, signed143>>
    /\ SignUnchanged

(***************************************************************************)
(* The signer                                                              *)
(***************************************************************************)
Next ==
    \/ Step1RequestInput
    \/ ConfirmForeignAddress
    \/ PrevRequestMeta
    \/ PrevRequestInput
    \/ PrevRequestOutput
    \/ PrevRequestExtraData
    \/ Step2RequestOutput
    \/ ConfirmOutput
    \/ ConfirmFeeOverThreshold
    \/ ConfirmNondefaultLocktime
    \/ ConfirmTotal
    \/ SerializeSegwitInput
    \/ SignBip143Input
    \/ SignNonsegwitRequestInput
    \/ SignNonsegwitRequestOutput
    \/ SerializeOutput
    \/ SignSegwitInput
    \/ Step7Finish

Spec == Init /\ [][Next]_vars

(***************************************************************************)
(* The history of a session                                                *)
(***************************************************************************)
LastEv == trace[Len(trace)]
PhaseMarks == SelectSeq(trace, LAMBDA e : e.ev = "phase")

\* The requests of phase p for piece what of the transaction being signed.
PhaseRequests(p, what) ==
    SelectSeq(trace, LAMBDA e : e.ev = "request" /\ e.phase = p /\ e.what = what /\ ~e.flag)
Phase4Requests == SelectSeq(trace, LAMBDA e : e.ev = "request" /\ e.phase = 4)

CountsFromZero(r) == \A j \in 1..Len(r) : r[j].index = j - 1
StrictlyAscending(r) == \A j \in 2..Len(r) : r[j - 1].index < r[j].index
StrictlyAscendingFromZero(r) == (Len(r) > 0 => r[1].index = 0) /\ StrictlyAscending(r)

\* The phases start in the order 1, 2, ...; every event belongs to the
\* phase started last.
PhasesInOrder ==
    /\ trace[1] = PhaseStart(1)
    /\ \A j \in 2..Len(trace) :
         trace[j].phase = IF trace[j].ev = "phase" THEN trace[j - 1].phase + 1
                                                   ELSE trace[j - 1].phase

\* TXFINISHED is the last event, after all seven phases have started.
TxFinishedLast ==
    \A j \in 1..Len(trace) :
        trace[j].what = "TXFINISHED" => j = Len(trace) /\ trace[j].phase = 7 /\ pc = "done"

\* Phase 4 works on the inputs 0, 1, ... in turn; for one input it makes
\* either the single request of that input, or requests the inputs
\* 0, 1, ... and then the outputs 0, 1, ...
Phase4Shape ==
    LET r == Phase4Requests IN
    \A q \in 1..Len(r) :
        IF q = 1
        THEN r[q].item = 0 /\ r[q].what = "TXINPUT" /\ r[q].index = 0
        ELSE IF r[q - 1].item # r[q].item
        THEN /\ r[q].item = r[q - 1].item + 1
             /\ r[q].what = "TXINPUT" /\ r[q].index \in {0, r[q].item}
        ELSE \/ r[q].what = r[q - 1].what /\ r[q].index = r[q - 1].index + 1
             \/ r[q - 1].what = "TXINPUT" /\ r[q].what = "TXOUTPUT" /\ r[q].index = 0

(***************************************************************************)
(* C1                                                                      *)
(***************************************************************************)
\* C1 as stated: the phases run in the order 1..7, TXFINISHED comes last,
\* and in every phase the requested input indices, and the requested output
\* indices, are strictly ascending starting from 0.
C1_IndicesAscendInEveryPhase ==
    /\ PhasesInOrder
    /\ TxFinishedLast
    /\ \A p \in 1..6 : \A what \in {"TXINPUT", "TXOUTPUT"} :
         StrictlyAscendingFromZero(PhaseRequests(p, what))

\* C1, amended: the phases run in the order 1..7 and TXFINISHED comes last
\* after all of them; phases 1, 2 and 5 request the indices 0, 1, 2, ...;
\* phase 6 requests the segwit inputs in strictly ascending order; phase 4
\* works on the inputs in ascending order, and for each legacy input it
\* requests all inputs and then all outputs again, each from index 0.
C1_PhaseAndIndexOrder ==
    /\ PhasesInOrder
    /\ TxFinishedLast
    /\ CountsFromZero(PhaseRequests(1, "TXINPUT")) /\ PhaseRequests(1, "TXOUTPUT") = <<>>
    /\ CountsFromZero(PhaseRequests(2, "TXOUTPUT")) /\ PhaseRequests(2, "TXINPUT") = <<>>
    /\ PhaseRequests(3, "TXINPUT") = <<>> /\ PhaseRequests(3, "TXOUTPUT") = <<>>
    /\ Phase4Shape
    /\ CountsFromZero(PhaseRequests(5, "TXOUTPUT")) /\ PhaseRequests(5, "TXINPUT") = <<>>
    /\ StrictlyAscending(PhaseRequests(6, "TXINPUT")) /\ PhaseRequests(6, "TXOUTPUT") = <<>>

\* A session that signed two legacy inputs, streaming the inputs twice in
\* phase 4, and finished.
C1_TwoLegacyInputsFinished ==
    /\ pc = "done"
    /\ Len(PhaseRequests(4, "TXINPUT")) >= 4
    /\ Len(PhaseRequests(4, "TXOUTPUT")) >= 2

(***************************************************************************)
(* C2                                                                      *)
(***************************************************************************)
\* C2 as stated: a session in which a reply of phases 4 to 6 differed from
\* the reply for the same index in phase 1 or 2 never reaches TXFINISHED.
C2_AnyChangeIsFatal == changed # {} => pc # "done"

\* C2, amended: when a reply in the re-streaming of a legacy signature
\* differs from the first reply in what h_check hashes, the signing of that
\* input goes no further than its last request and the session ends in a
\* SigningError; it never reaches TXFINISHED.
C2_HashedChangeIsFatal ==
    "h_check" \in changed =>
        \/ pc \in {"sign_inputs", "sign_outputs"}
        \/ pc = "failed" /\ error.cls = "SigningError"

\* A session whose legacy re-streaming changed a hashed reply and that was
\* ended by the comparison of the digests.
C2_HashedChangeRejected ==
    /\ "h_check" \in changed
    /\ pc = "failed" /\ error = ChangedDuringSigning
    /\ LastEv.what = "TXOUTPUT" /\ LastEv.index = tx.outputs_count - 1
    /\ Len(h_check) = tx.inputs_count + tx.outputs_count

(***************************************************************************)
(* C3                                                                      *)
(***************************************************************************)
\* C3: a legacy signature is produced only when h_check equals h_confirmed;
\* when the re-streaming is complete and the two differ, the session ends
\* with ProcessError and without a signature.
C3_LegacySignatureNeedsEqualDigests ==
    /\ signature.preimage = "legacy" => h_check = h_confirmed
    /\ ( /\ LastEv.ev = "request" /\ LastEv.phase = 4 /\ LastEv.what = "TXOUTPUT"
         /\ LastEv.index = tx.outputs_count - 1
         /\ Len(h_check) = tx.inputs_count + tx.outputs_count
         /\ h_check # h_confirmed )
       => pc = "failed" /\ error = ChangedDuringSigning /\ signature = NoSignature

\* The second of two legacy inputs has just been signed.
C3_LegacyInputSigned ==
    /\ signature = Signature(1, "legacy")
    /\ Len(h_check) = 3

(***************************************************************************)
(* C4                                                                      *)
(***************************************************************************)
\* C4: at most one output of a transaction is accepted as change without
\* the confirm_output prompt, outputs of amount 0 included.
C4_AtMostOneSilentChange == Cardinality(silent) <= 1

(***************************************************************************)
(* C5                                                                      *)
(***************************************************************************)
\* The path of a change output: second-to-last element at most 1, last
\* element at most 1000000.
ChangePath(address_n) ==
    /\ Len(address_n) >= 2
    /\ address_n[Len(address_n) - 1] <= 1
    /\ address_n[Len(address_n)] <= 1000000

ChangeTypes == {"PAYTOADDRESS", "PAYTOMULTISIG", "PAYTOWITNESS", "PAYTOP2SHWITNESS"}

\* C5 as stated: an output accepted without a prompt is admitted by both
\* checkers, has a change script type and a change path.
C5_BothCheckersAdmit ==
    \A j \in silent :
        LET o == first_txo[j + 1] IN
        /\ o.script_type \in ChangeTypes
        /\ output_matches("wallet_path", wallet_path, o).result
        /\ output_matches("multisig", multisig_fingerprint, o).result
        /\ ChangePath(o.address_n)

\* C5, amended: an output accepted without a prompt has a change script
\* type, is admitted by the wallet-path checker, has a change path and, when
\* it carries a multisig descriptor, is admitted by the multisig-fingerprint
\* checker; an output without a multisig descriptor is not put to that
\* checker.
C5_SilentChangeIsAdmitted ==
    \A j \in silent :
        LET o == first_txo[j + 1] IN
        /\ o.script_type \in ChangeTypes
        /\ output_matches("wallet_path", wallet_path, o).result
        /\ o.multisig # 0 => output_matches("multisig", multisig_fingerprint, o).result
        /\ ChangePath(o.address_n)

\* A multisig change output was accepted without a prompt.
C5_MultisigChangeAccepted ==
    \E j \in silent : first_txo[j + 1].multisig # 0

(***************************************************************************)
(* C6                                                                      *)
(***************************************************************************)
\* C6: a declined prompt is the last event of its session, which ends with
\* SigningError(ActionCancelled).
C6_DeclineEndsSession ==
    \A j \in 1..Len(trace) :
        (trace[j].ev = "prompt" /\ ~trace[j].flag) =>
            /\ j = Len(trace)
            /\ pc = "failed"
            /\ error.cls = "SigningError" /\ error.failure = "ActionCancelled"

(***************************************************************************)
(* C7                                                                      *)
(***************************************************************************)
TotalAccepted ==
    \E j \in 1..Len(trace) : trace[j].what = "confirm_total" /\ trace[j].flag

\* C7 as stated: the host of a session that ended in an error has received
\* no bytes of the transaction and no signature.
C7_NothingDeliveredOnError ==
    pc = "failed" => host_rx.tx = <<>> /\ host_rx.sigs = <<>>

\* C7, amended: until the user has accepted confirm_total nothing is
\* serialized, signed or delivered; so a session that ends in an error in
\* phases 1 to 3 has delivered nothing.
C7_NothingBeforeTotal ==
    ~TotalAccepted =>
        /\ host_rx.tx = <<>> /\ host_rx.sigs = <<>>
        /\ serialized_tx = <<>> /\ signature = NoSignature

\* A session the user ended at confirm_total, after all its requests of
\* phases 1 and 2.
C7_CancelledAtTotal ==
    /\ pc = "failed" /\ error.failure = "ActionCancelled"
    /\ LastEv.what = "confirm_total"
    /\ tx_req.request_type = "TXOUTPUT"
    /\ host_rx.tx = <<>> /\ host_rx.sigs = <<>>

(***************************************************************************)
(* C8                                                                      *)
(***************************************************************************)
\* C8: when step 3 finds total_in - total_out negative, the session ends
\* with NotEnoughFunds before any prompt of step 3 and before any
\* signature, unless the signer is Bitcoinlike and the coin has
\* negative_fee, and then it goes on to the prompts; NotEnoughFunds has no
\* other cause.
C8_NegativeFee ==
    LET negative == Len(PhaseMarks) >= 3 /\ total_in - total_out < 0
        permitted == coin.signer = "Bitcoinlike" /\ coin.negative_fee
    IN  /\ (negative /\ ~permitted) =>
              /\ pc = "failed"
              /\ error = SigningError("NotEnoughFunds", "Not enough funds")
              /\ LastEv = PhaseStart(3)
              /\ signature = NoSignature /\ host_rx.sigs = <<>>
        /\ (negative /\ permitted) =>
              /\ error.failure # "NotEnoughFunds"
              /\ LastEv = PhaseStart(3) =>
                    pc \in {"confirm_feeoverthreshold", "confirm_nondefault_locktime",
                            "confirm_total"}
        /\ error.failure = "NotEnoughFunds" => negative

\* A Bitcoinlike coin without negative_fee ended a session with
\* NotEnoughFunds.
C8_NotEnoughFunds ==
    /\ coin.signer = "Bitcoinlike" /\ ~coin.negative_fee
    /\ pc = "failed" /\ error.failure = "NotEnoughFunds"
    /\ total_in < total_out

(***************************************************************************)
(* C9 and C10                                                              *)
(***************************************************************************)
\* The last request was the one of sign_segwit_input or sign_bip143_input,
\* and no signature followed it.
Bip143SigningFailed ==
    /\ LastEv.ev = "request" /\ LastEv.what = "TXINPUT"
    /\ \/ LastEv.phase = 6
       \/ /\ LastEv.phase = 4
          /\ coin.signer = "Bitcoinlike" /\ coin.force_bip143
          /\ ~segwit[LastEv.item]

\* C9 as stated: an input is signed under BIP-143 only with an amount that
\* is at most the amount the host gave for the same index in phase 1.
C9_AmountAtMostFirstAmount ==
    signature.preimage = "bip143" =>
        txi.amount <= first_txi[signature.index + 1].amount

\* C9, amended: an input is signed under BIP-143 only with an amount that
\* is at most what was left of bip143_in (its value at the end of phase 1
\* less the amounts signed before); a greater amount ends the session with
\* ProcessError and without a signature.
C9_AmountAtMostRemaining ==
    /\ signature.preimage = "bip143" =>
          txi.amount <= bip143_confirmed - (signed143 - txi.amount)
    /\ (Bip143SigningFailed /\ txi.amount > bip143_in) =>
          pc = "failed" /\ error = ChangedDuringSigning /\ signature = NoSignature

\* A session ended because the amount of an input to sign under BIP-143 was
\* greater than what was left of bip143_in.
C9_ExcessAmountRejected ==
    /\ Bip143SigningFailed /\ txi.amount > bip143_in
    /\ input_is_segwit(txi)
    /\ pc = "failed"

\* C10: from the end of phase 1 on, the amounts signed under BIP-143 plus
\* bip143_in make the value bip143_in had at the end of phase 1, bip143_in
\* is not negative, and a session ended by an amount greater than bip143_in
\* ends with ProcessError and bip143_in as it was.
C10_Bip143Accounting ==
    Len(PhaseMarks) >= 2 =>
        /\ signed143 + bip143_in = bip143_confirmed
        /\ bip143_in >= 0
        /\ (Bip143SigningFailed /\ txi.amount > bip143_in) =>
              error = ChangedDuringSigning

\* One input is signed under BIP-143 and another is still to be signed.
C10_PartlySigned == signed143 > 0 /\ bip143_in > 0 /\ pc = "step6"

(***************************************************************************)
(* C11                                                                     *)
(***************************************************************************)
\* The inputs that phase 1 has finished with.
InputsDone == IF LastEv.phase = 1 THEN i ELSE tx.inputs_count

\* Input j has its amount from get_prevtx_output_value.
UsesPrevTx(j) == ~segwit[j] /\ ~(coin.signer = "Bitcoinlike" /\ coin.force_bip143)

\* The previous output input j refers to exists.
PrevOutputExists(j) ==
    LET t == first_txi[j + 1] IN
    /\ t.prev_hash \in DOMAIN PrevTxs
    /\ t.prev_index < Len(PrevTxs[t.prev_hash].outputs)

\* The amounts of the previous outputs that the inputs below n refer to.
RECURSIVE AuthenticSum(_)
AuthenticSum(n) ==
    IF n = 0 THEN 0
    ELSE AuthenticSum(n - 1) +
         IF UsesPrevTx(n - 1) /\ PrevOutputExists(n - 1)
         THEN PrevTxs[first_txi[n].prev_hash].outputs[first_txi[n].prev_index + 1].amount
         ELSE 0

\* The requests made for the previous transaction of input j.
PrevRequests(j, what) ==
    SelectSeq(trace, LAMBDA e : e.ev = "request" /\ e.flag /\ e.item = j /\ e.what = what)

\* The last event is a request for a piece of a previous transaction.
AfterPrevRequest == LastEv.ev = "request" /\ LastEv.flag

InPrevTx == pc \in {"prev_meta", "prev_input", "prev_output", "prev_extra_data"}

\* C11: what total_in holds beyond the amounts of the BIP-143 inputs is the
\* sum of the amounts of the previous outputs that the finished legacy
\* inputs refer to: every such input refers to an existing output of a
\* transaction with the hash prev_hash, and the host was asked for the meta,
\* every input and every output of it in ascending order; when the stream is
\* complete and its hash is not prev_hash, or prev_index is not below the
\* number of outputs, the session ends with ProcessError and total_in is
\* left as it was.
C11_TotalInIsAuthenticated ==
    /\ total_in - (IF LastEv.phase = 1 THEN bip143_in ELSE bip143_confirmed)
          = AuthenticSum(InputsDone)
    /\ \A j \in 0..(InputsDone - 1) :
         UsesPrevTx(j) =>
            /\ PrevOutputExists(j)
            /\ Len(PrevRequests(j, "TXMETA")) = 1
            /\ Len(PrevRequests(j, "TXINPUT")) = PrevTxs[first_txi[j + 1].prev_hash].meta.inputs_cnt
            /\ Len(PrevRequests(j, "TXOUTPUT")) = PrevTxs[first_txi[j + 1].prev_hash].meta.outputs_cnt
            /\ CountsFromZero(PrevRequests(j, "TXINPUT"))
            /\ CountsFromZero(PrevRequests(j, "TXOUTPUT"))
    /\ (AfterPrevRequest /\ ~InPrevTx /\ get_tx_hash(coin, prev.txh) # txi.prev_hash) =>
          pc = "failed" /\ error.cls = "SigningError" /\ error.failure = "ProcessError"
    /\ error.msg \in {"Encountered invalid prev_hash",
                      "Not enough outputs in previous transaction."} =>
          error.failure = "ProcessError" /\ AfterPrevRequest

\* A session that ended because the streamed previous transaction does not
\* have the hash prev_hash, after an earlier input was authenticated.
C11_InvalidPrevHashRejected ==
    /\ pc = "failed" /\ error.msg = "Encountered invalid prev_hash"
    /\ i = 1 /\ total_in > 0

(***************************************************************************)
(* C12                                                                     *)
(***************************************************************************)
\* What has been appended to the serialized transaction so far: what the
\* host has received and what waits for the next request.
Emitted == host_rx.tx \o serialized_tx

Repeat(n, f) == [x \in 1..n |-> f]

\* The fields of the header of the signed transaction.
HeaderFields ==
    <<"version">>
      \o (IF coin.signer = "Bitcoinlike" /\ coin.timestamp THEN <<"timestamp">> ELSE <<>>)
      \o (IF \E j \in DOMAIN segwit : segwit[j] THEN <<"marker", "flag">> ELSE <<>>)

\* The fields of the signed transaction in the canonical order.
CanonicalFields ==
    HeaderFields
      \o <<"varint">> \o Repeat(tx.inputs_count, "txi")
      \o <<"varint">> \o Repeat(tx.outputs_count, "txo")
      \o (IF \E j \in DOMAIN segwit : segwit[j]
          THEN Repeat(tx.inputs_count, "witness") ELSE <<>>)
      \o <<"lock_time">>

IsPrefix(a, b) == Len(a) <= Len(b) /\ \A x \in 1..Len(a) : a[x] = b[x]

\* The position in the signed transaction before input 0, output 0 and the
\* witness of input 0.
InputsAt == Len(HeaderFields) + 1
OutputsAt == InputsAt + tx.inputs_count + 1
WitnessesAt == OutputsAt + tx.outputs_count

\* C12: at every point of a session what has been appended to the
\* serialized transaction is a beginning of the canonical sequence header,
\* input count, inputs 0..n-1, output count, outputs 0..m-1, witnesses of
\* the inputs 0..n-1 when some input is segwit, lock_time: the counts are
\* those of the SignTx, the input at position j has the scriptSig of the
\* class of input j, the witness at position j is an empty one exactly when
\* input j is not segwit; at TXFINISHED the host has the whole sequence.
C12_CanonicalOrder ==
    LET e == Emitted IN
    /\ e # <<>> => IsPrefix([x \in 1..Len(e) |-> e[x].f], CanonicalFields)
    /\ \A x \in 1..Len(e) :
         /\ e[x].f = "version" => e[x].x = <<tx.version>>
         /\ x = InputsAt => e[x].x = <<tx.inputs_count>>
         /\ x = OutputsAt => e[x].x = <<tx.outputs_count>>
         /\ e[x].f = "lock_time" => e[x].x = <<tx.lock_time>>
         /\ e[x].f = "txi" =>
               (e[x].kind \in {"p2pkh_or_p2sh", "multisig"}) = ~segwit[x - InputsAt - 1]
         /\ e[x].f = "witness" =>
               (e[x].kind = "empty") = ~segwit[x - WitnessesAt - 1]
    /\ pc = "done" =>
          /\ serialized_tx = <<>>
          /\ [x \in 1..Len(host_rx.tx) |-> host_rx.tx[x].f] = CanonicalFields

\* A finished session with a legacy and a segwit input.
C12_MixedTransactionFinished ==
    /\ pc = "done"
    /\ \E j \in DOMAIN segwit : segwit[j]
    /\ \E j \in DOMAIN segwit : ~segwit[j]

(***************************************************************************)
(* C13                                                                     *)
(***************************************************************************)
SomeSegwit == \E j \in DOMAIN segwit : segwit[j]

HasField(w, f) == \E x \in 1..Len(w) : w[x].f = f

WitnessEntries == SelectSeq(host_rx.tx, LAMBDA it : it.f = "witness")

\* C13: the serialized transaction carries the segwit marker and flag
\* exactly when some input is segwit; a finished transaction then has one
\* witness entry per input, an empty one exactly for the inputs that are not
\* segwit, and has no witness entry when no input is segwit; the preimage of
\* a legacy signature and the hashed previous transaction never carry the
\* marker or the flag.
C13_MarkerIffSegwit ==
    /\ Emitted # <<>> =>
         /\ HasField(Emitted, "marker") <=> SomeSegwit
         /\ HasField(Emitted, "flag") <=> SomeSegwit
    /\ pc = "done" =>
         /\ Len(WitnessEntries) = IF SomeSegwit THEN tx.inputs_count ELSE 0
         /\ \A x \in 1..Len(WitnessEntries) :
              WitnessEntries[x].kind = "empty" <=> ~segwit[x - 1]
    /\ \A f \in {"marker", "flag"} : ~HasField(h_sign, f) /\ ~HasField(prev.txh, f)

\* A finished transaction with a segwit input and a legacy input that was
\* signed over a preimage and authenticated by its previous transaction.
C13_MixedTransactionWithPreimage ==
    /\ pc = "done" /\ SomeSegwit /\ h_sign # <<>> /\ prev.txh # <<>>
    /\ HasField(host_rx.tx, "marker") /\ Len(WitnessEntries) = tx.inputs_count

(***************************************************************************)
(* C14                                                                     *)
(***************************************************************************)
EmittedItems(f) == SelectSeq(host_rx.tx, LAMBDA it : it.f = f)

\* The host answered every repeated request as it answered the first.
ConsistentHost == changed = {}

\* C14: when the host was consistent, the transaction of a session that
\* reached TXFINISHED has the counts and the lock_time of the SignTx, its
\* inputs are, in order, the prevouts and sequences streamed in phase 1, and
\* its outputs are, in order, the amounts and scriptPubKeys of the outputs
\* streamed in phase 2.
C14_EmittedIsWhatWasStreamed ==
    (pc = "done" /\ ConsistentHost) =>
        /\ Len(first_txi) = tx.inputs_count /\ Len(first_txo) = tx.outputs_count
        /\ [x \in 1..2 |-> EmittedItems("varint")[x].x]
             = << <<tx.inputs_count>>, <<tx.outputs_count>> >>
        /\ [x \in 1..Len(EmittedItems("txi")) |-> SubSeq(EmittedItems("txi")[x].x, 1, 3)]
             = [x \in 1..tx.inputs_count |->
                  <<first_txi[x].prev_hash, first_txi[x].prev_index, first_txi[x].sequence>>]
        /\ EmittedItems("txo")
             = [x \in 1..tx.outputs_count |->
                  write_tx_output(<<>>, TxOutputBin(coin, first_txo[x]))[1]]
        /\ EmittedItems("lock_time") = <<Item("lock_time", "", <<tx.lock_time>>)>>

\* A consistent host finished a transaction with two inputs of different
\* sequence numbers and a non-zero lock_time.
C14_ConsistentHostFinished ==
    /\ pc = "done" /\ ConsistentHost /\ tx.lock_time = 1
    /\ \E x, y \in 1..Len(first_txi) : first_txi[x].sequence # first_txi[y].sequence

(***************************************************************************)
(* C15                                                                     *)
(***************************************************************************)
FailureTypes == {"DataError", "ProcessError", "ActionCancelled", "NotEnoughFunds"}

\* C15: a session that failed ended with a SigningError that carries one of
\* the failure types DataError, ProcessError, ActionCancelled and
\* NotEnoughFunds and a message.
C15_EveryFailureIsTyped ==
    pc = "failed" =>
        /\ error.cls = "SigningError"
        /\ error.failure \in FailureTypes
        /\ error.msg # ""

\* Apart from the CashAddr address of an unknown type, every failure is a
\* typed SigningError; no session fails in add_input of a read-only checker.
C15_OnlyCashAddrIsUntyped ==
    (pc = "failed" /\ error.msg # "Unknown cashaddr address type") =>
        /\ error.cls = "SigningError"
        /\ error.failure \in FailureTypes
        /\ error.msg # ""

(***************************************************************************)
(* C16                                                                     *)
(***************************************************************************)
\* C16: the running totals total_in, total_out, change_out and bip143_in
\* are never negative, and total_in is never less than bip143_in.
C16_TotalsNonNegative ==
    /\ total_in >= 0 /\ total_out >= 0 /\ change_out >= 0 /\ bip143_in >= 0
    /\ total_in >= bip143_in

\* A BIP-143 signature has drawn bip143_in down to zero in a session with
\* a payment and a change output.
C16_Bip143DrawnDown ==
    /\ signed143 > 0 /\ bip143_in = 0 /\ total_in > 0
    /\ change_out > 0 /\ total_out > change_out

(***************************************************************************)
(* C17                                                                     *)
(***************************************************************************)
Phase1 == {"step1", "confirm_foreign_address", "prev_meta", "prev_input",
           "prev_output", "prev_extra_data"}

\* C17: an entry of the segwit map, once written, is never written again or
\* changed; the map is only written in phase 1, by the processing of input
\* i, which adds the entry of index i with the class of that input; and in
\* every phase after phase 1 the map is defined for exactly the indices
\* 0..inputs_count-1.
C17_SegwitWrittenOnce ==
    [][ /\ \A j \in DOMAIN segwit : j \in DOMAIN segwit' /\ segwit'[j] = segwit[j]
        /\ segwit' # segwit =>
              /\ pc \in {"step1", "confirm_foreign_address"}
              /\ i \notin DOMAIN segwit
              /\ DOMAIN segwit' = DOMAIN segwit \cup {i}
              /\ segwit'[i] = input_is_segwit(txi')
        /\ pc' \notin Phase1 \cup {"failed"} =>
              DOMAIN segwit' = 0..(tx.inputs_count - 1) ]_vars

\* Phase 4 starts with the map defined for a segwit and a legacy input.
C17_MapCompleteAtPhase4 ==
    /\ pc = "step4" /\ i = 0 /\ tx.inputs_count = 2
    /\ DOMAIN segwit = {0, 1} /\ segwit[0] /\ ~segwit[1]

(***************************************************************************)
(* C18                                                                     *)
(***************************************************************************)
\* One step of a checker of the kind, from attribute a to attribute b.
AttributeStep(kind, a, b) ==
    /\ a = MISMATCH(kind) => b = MISMATCH(kind)
    /\ a # UNDEFINED(kind) => b # UNDEFINED(kind)
    /\ a.tag = "VALUE" => b \in {a, MISMATCH(kind)}
    /\ (a = UNDEFINED(kind) /\ b # a) =>
            /\ Len(first_txi) = 0 /\ Len(first_txi') = 1
            /\ b \in {attribute_from_tx(kind, first_txi'[1]), MISMATCH(kind)}
    /\ b # a => pc = "step1"
    /\ Len(first_txi') > 0 => b # UNDEFINED(kind)

\* C18: the attribute of each checker only moves from UNDEFINED to the
\* attribute of the first input or to MISMATCH, and from a value to
\* MISMATCH; MISMATCH is kept for ever, UNDEFINED never comes back, a value
\* is never replaced by another value; the attribute changes only when an
\* input is added in phase 1, never in the steps that call output_matches
\* or check_input.
C18_AttributeMonotone ==
    [][ /\ AttributeStep("wallet_path", wallet_path.attribute, wallet_path'.attribute)
        /\ AttributeStep("multisig", multisig_fingerprint.attribute,
                         multisig_fingerprint'.attribute) ]_vars

\* A finished session whose multisig checker went from a value to MISMATCH
\* while its wallet-path checker kept its value.
C18_ValueThenMismatch ==
    /\ pc = "done" /\ Len(first_txi) = 2 /\ first_txi[1].multisig # 0
    /\ wallet_path.attribute.tag = "VALUE"
    /\ multisig_fingerprint.attribute = MISMATCH("multisig")

(***************************************************************************)
(* C19                                                                     *)
(***************************************************************************)
\* add_input on the checker c fails and leaves c as it is.
AddInputRefused(kind, c) ==
    \A t \in host.inputs : add_input(kind, c, t) = [ok |-> FALSE, checker |-> c]

\* While inputs are added no checker is read-only, no session fails in the
\* ensure of add_input, and add_input on a read-only checker is refused.
ReadOnlyRespected ==
    /\ pc \in Phase1 => ~wallet_path.read_only /\ ~multisig_fingerprint.read_only
    /\ error # AssertionError
    /\ wallet_path.read_only => AddInputRefused("wallet_path", wallet_path)
    /\ multisig_fingerprint.read_only => AddInputRefused("multisig", multisig_fingerprint)

\* read_only stays true; it becomes true only in the step of phase 2 that
\* tests an output for change (no change output accepted so far), and does
\* so for the checker that the test consults first.
ReadOnlyLatch ==
    /\ wallet_path.read_only => wallet_path'.read_only
    /\ multisig_fingerprint.read_only => multisig_fingerprint'.read_only
    /\ (wallet_path'.read_only # wallet_path.read_only
          \/ multisig_fingerprint'.read_only # multisig_fingerprint.read_only)
         => pc = "step2"
    /\ ( /\ pc = "step2" /\ pc' # "failed" /\ change_out = 0
         /\ txo'.script_type \in CHANGE_OUTPUT_SCRIPT_TYPES ) =>
         IF txo'.multisig = 0 THEN wallet_path'.read_only
         ELSE multisig_fingerprint'.read_only

\* C19: output_matches makes a checker read-only for the rest of the
\* session; add_input on a read-only checker fails and leaves its attribute
\* unchanged; the signer adds inputs only in phase 1, when no checker is
\* read-only yet, so no session fails in add_input.
C19_ReadOnlyLatched == []ReadOnlyRespected /\ [][ReadOnlyLatch]_vars

\* A finished session both of whose checkers were consulted for an output.
C19_BothCheckersReadOnly ==
    /\ pc = "done" /\ wallet_path.read_only /\ multisig_fingerprint.read_only
    /\ AddInputRefused("wallet_path", wallet_path)

(***************************************************************************)
(* C20                                                                     *)
(***************************************************************************)
\* The checker c latched a value and the input t has another attribute.
AttributeChanged(kind, c, t) ==
    c.attribute # MISMATCH(kind) /\ c.attribute # attribute_from_tx(kind, t)

\* The event e requests input e.index to serialize or sign that input.
OwnInputRequest(e) ==
    /\ e.ev = "request" /\ e.what = "TXINPUT" /\ ~e.flag
    /\ e.phase \in {4, 6} /\ e.index = e.item

\* The input requested by e is signed at this request.
SignedAt(e) == e.phase = 6 \/ ~segwit[e.index]

\* What else makes the request e of input t raise "Transaction has changed
\* during signing": the class of the input or its amount.
OtherChange(e, t) ==
    IF e.phase = 6 THEN ~input_is_segwit(t) \/ t.amount > bip143_in
    ELSE IF segwit[e.index] THEN ~input_is_segwit(t)
    ELSE IF coin.signer = "Bitcoinlike" /\ coin.force_bip143
    THEN t.script_type \notin {"SPENDADDRESS", "SPENDMULTISIG"} \/ t.amount > bip143_in
    ELSE FALSE

\* C20: when an input is requested again to be serialized (phase 4, segwit)
\* or signed (phase 4 legacy and forced BIP-143, phase 6 segwit) and its
\* wallet path differs from the value the wallet-path checker latched, or,
\* where it is signed, its multisig fingerprint differs from the value the
\* multisig checker latched, the session ends with ProcessError
\* "Transaction has changed during signing"; a checker in MISMATCH never
\* ends the session: such a request fails with that error only for a
\* changed attribute or for the class or the amount of the input.
C20_ChangedAttributeIsFatal ==
    [][ LET e == trace'[Len(trace) + 1]
            changedAttribute ==
                \/ AttributeChanged("wallet_path", wallet_path, txi')
                \/ SignedAt(e) /\ AttributeChanged("multisig", multisig_fingerprint, txi')
            ended == pc' = "failed" /\ error' = ChangedDuringSigning
        IN  (Len(trace') > Len(trace) /\ OwnInputRequest(e)) =>
                /\ changedAttribute => ended
                /\ ended => changedAttribute \/ OtherChange(e, txi') ]_vars

\* A segwit input passed the wallet-path check of phase 4 and was rejected
\* in phase 6 for its multisig fingerprint alone.
C20_MultisigChangeRejected ==
    /\ pc = "failed" /\ error = ChangedDuringSigning
    /\ OwnInputRequest(LastEv) /\ LastEv.phase = 6
    /\ AttributeChanged("multisig", multisig_fingerprint, txi)
    /\ ~AttributeChanged("wallet_path", wallet_path, txi)
    /\ ~OtherChange(LastEv, txi)

(***************************************************************************)
(* C21                                                                     *)
(***************************************************************************)
ForcedBip143 == coin.signer = "Bitcoinlike" /\ coin.force_bip143

\* The step runs process_input from the classification of the input on.
ClassifiesInput ==
    \/ pc = "step1" /\ pc' # "confirm_foreign_address" /\ error' # AssertionError
    \/ pc = "confirm_foreign_address"

\* On a coin that forces BIP-143 nothing of a previous transaction is ever
\* requested, no legacy preimage is built, and phase 4 requests each input
\* once, for itself, and no output.
NoLegacyOnForcedCoin ==
    ForcedBip143 =>
        /\ ~InPrevTx /\ \A x \in 1..Len(trace) : ~(trace[x].ev = "request" /\ trace[x].flag)
        /\ h_sign = <<>> /\ h_check = <<>> /\ signature.preimage # "legacy"
        /\ \A x \in 1..Len(Phase4Requests) :
              Phase4Requests[x].what = "TXINPUT" /\ Phase4Requests[x].index = x - 1
                  /\ Phase4Requests[x].item = x - 1
        /\ \A x \in 1..Len(trace) :
              (trace[x].ev = "sign" /\ trace[x].phase = 4) => ~segwit[trace[x].index]
        /\ (signature # NoSignature /\ LastEv.phase = 4) =>
              signature = Signature(LastEv.index, "bip143") /\ ~segwit[LastEv.index]

\* Phase 1 of a non-segwit input on a coin that forces BIP-143.
ForcedInputProcessed ==
    (ForcedBip143 /\ ClassifiesInput /\ input_is_nonsegwit(txi')) =>
        IF txi'.amount = 0
        THEN /\ pc' = "failed" /\ error'.cls = "SigningError" /\ error'.failure = "DataError"
             /\ UNCHANGED <<segwit, total_in, bip143_in>>
        ELSE /\ pc' \in {"step1", "step2"}
             /\ DOMAIN segwit' = DOMAIN segwit \cup {i} /\ ~segwit'[i]
             /\ bip143_in' = bip143_in + txi'.amount
             /\ total_in' = total_in + txi'.amount

\* C21: on a coin with force_bip143 an input of a non-segwit script type is
\* processed without any previous-transaction request, ends the session
\* with DataError when it has no amount, otherwise adds its amount to
\* bip143_in and to total_in and sets segwit[i] to false; phase 4 signs it
\* over the BIP-143 preimage after one request of that input, without
\* streaming the inputs and outputs again.
C21_ForcedBip143 == []NoLegacyOnForcedCoin /\ [][ForcedInputProcessed]_vars

\* A non-segwit input of a coin that forces BIP-143 was signed in phase 4.
C21_ForcedInputSigned ==
    /\ ForcedBip143 /\ signature = Signature(0, "bip143") /\ LastEv.phase = 4
    /\ input_is_nonsegwit(txi) /\ ~segwit[0] /\ total_in = txi.amount

(***************************************************************************)
(* C22                                                                     *)
(***************************************************************************)
\* The input t is structurally invalid for the coin: its script type is of
\* neither class, or it is a segwit input on a coin without segwit, or a
\* segwit input without amount.
InvalidInput(t) ==
    \/ ~input_is_segwit(t) /\ ~input_is_nonsegwit(t)
    \/ input_is_segwit(t) /\ coin.signer = "Bitcoinlike" /\ ~coin.segwit
    \/ input_is_segwit(t) /\ t.amount = 0

\* C22: in phase 1 an input whose script type is neither segwit-class nor
\* non-segwit-class, a segwit input without amount and a segwit input on a
\* coin that does not support segwit end the session with DataError, and
\* total_in, bip143_in and the segwit map stay as they were before the input.
C22_InvalidInputRejected ==
    [][ (ClassifiesInput /\ InvalidInput(txi')) =>
            /\ pc' = "failed" /\ error'.cls = "SigningError"
            /\ error'.failure = "DataError" /\ error'.msg # ""
            /\ UNCHANGED <<segwit, total_in, bip143_in>> ]_vars

\* A second input, a segwit input without amount, was rejected after a
\* first input had been counted.
C22_SegwitWithoutAmountRejected ==
    /\ pc = "failed" /\ error = SigningError("DataError", "Segwit input without amount")
    /\ Len(first_txi) = 2 /\ txi.amount = 0 /\ total_in = 1 /\ DOMAIN segwit = {0}

(***************************************************************************)
(* C23                                                                     *)
(***************************************************************************)
Prompts(p) == SelectSeq(trace, LAMBDA e : e.ev = "prompt" /\ e.phase = p)

Phase3Started == \E x \in 1..Len(trace) : trace[x] = PhaseStart(3)

\* The prompts step 3 has to ask, in their order.
Phase3Prompts ==
    (IF FeeOverThreshold(coin, total_in - total_out, weight)
     THEN <<"confirm_feeoverthreshold">> ELSE <<>>)
    \o (IF tx.lock_time > 0 THEN <<"confirm_nondefault_locktime">> ELSE <<>>)
    \o <<"confirm_total">>

PassedNegativeFeeCheck == Phase3Started /\ error.failure # "NotEnoughFunds"

TotalRequested ==
    pc = "confirm_total" \/ \E x \in 1..Len(trace) : trace[x].what = "confirm_total"

\* C23 as stated: every session that passes the negative-fee check
\* requests the total confirmation.
C23_TotalAlwaysRequested ==
    (PassedNegativeFeeCheck /\ pc \in {"failed", "done"}) => TotalRequested

\* C23: the prompts of phase 3 are the fee prompt (exactly when the fee is
\* over the threshold), the lock_time prompt (exactly when lock_time > 0)
\* and the total, in this order, each asked after the one before it was
\* accepted; the total is requested in every session that passed the
\* negative-fee check and had the earlier prompts of phase 3 accepted; no
\* prompt follows it; it shows total_in - change_out as the amount spent
\* and total_in - total_out as the fee.
C23_Phase3Prompts ==
    LET asked == Prompts(3)
        n == Len(asked)
    IN  /\ ~Phase3Started => n = 0 /\ ~TotalRequested
        /\ Phase3Started =>
              /\ n <= Len(Phase3Prompts)
              /\ \A x \in 1..n : asked[x].what = Phase3Prompts[x]
              /\ \A x \in 1..(n - 1) : asked[x].flag
              /\ pc \in {"confirm_feeoverthreshold", "confirm_nondefault_locktime",
                          "confirm_total"} => pc = Phase3Prompts[n + 1]
              /\ (PassedNegativeFeeCheck /\ \A x \in 1..n : asked[x].flag) =>
                    pc = "confirm_total" \/ n = Len(Phase3Prompts)
                        \/ pc = Phase3Prompts[n + 1]
        /\ \A x \in 1..Len(trace) :
              trace[x].what = "confirm_total" =>
                  /\ trace[x].index = total_in - change_out
                  /\ trace[x].item = total_in - total_out
                  /\ \A y \in (x + 1)..Len(trace) : trace[y].ev # "prompt"

\* The fee prompt, the lock_time prompt and the total were all accepted.
C23_ThreePromptsAccepted ==
    /\ Len(Prompts(3)) = 3 /\ \A x \in 1..3 : Prompts(3)[x].flag
    /\ change_out > 0

(***************************************************************************)
(* C24                                                                     *)
(***************************************************************************)
\* 0x01, or 0x01 | (f << 8) | 0x40 for a coin with the fork_id f.
SighashType(c) ==
    IF c.fork_id = -1 THEN 1 ELSE BitOr(1, BitOr(ShiftLeft(c.fork_id, 8), 64))

\* The scripts and witnesses that hold a signature.
SignedScripts == {"p2pkh_or_p2sh", "multisig", "p2wsh", "p2wpkh"}

\* C24: the sighash type is 0x01 for a coin without fork_id and
\* 0x01 | (f << 8) | 0x40 for a coin with the fork_id f (0x7941 for
\* f = 0x79); every signature is made over a preimage that ends with this
\* value, and every script and witness that holds a signature holds the
\* same value.
C24_SighashType ==
    /\ BitOr(1, BitOr(ShiftLeft(121, 8), 64)) = 31041
    /\ SighashType(coin) = IF coin.fork_id = -1 THEN 1 ELSE 65 + 256 * coin.fork_id
    /\ signature # NoSignature => signature.hash_type = SighashType(coin)
    /\ signature.preimage = "legacy" =>
          h_sign[Len(h_sign)] = Item("hash_type", "", <<SighashType(coin)>>)
    /\ \A x \in 1..Len(Emitted) :
          Emitted[x].kind \in SignedScripts =>
              Emitted[x].x[Len(Emitted[x].x)] = SighashType(coin)

\* On a coin with a fork_id a legacy-class input and a segwit input were
\* signed and the second signature is at hand.
C24_ForkIdSigned ==
    /\ coin.fork_id = 79 /\ signature.index = 1 /\ signature.hash_type = 20289
    /\ \E x \in 1..Len(Emitted) : Emitted[x].kind = "p2pkh_or_p2sh"
    /\ \E x \in 1..Len(Emitted) : Emitted[x].kind = "p2wpkh"

(***************************************************************************)
(* C25                                                                     *)
(***************************************************************************)
\* A signature has been produced or handed to the host.
SignatureProduced ==
    \/ signature # NoSignature \/ host_rx.sigs # <<>>
    \/ \E x \in 1..Len(trace) : trace[x].ev = "sign"

\* The user accepted the prompt for output j.
OutputAcceptedByUser(j) ==
    \E x \in 1..Len(trace) : trace[x] = PromptEv(2, "confirm_output", j, TRUE)

\* Every signature comes after phase 1 for all inputs, phase 2 for all
\* outputs, each either accepted by the user or taken as change without a
\* prompt, and an accepted confirm_total.
SignedAfterTotal ==
    SignatureProduced =>
        /\ Len(first_txi) = tx.inputs_count
        /\ Len(PhaseRequests(1, "TXINPUT")) = tx.inputs_count
        /\ CountsFromZero(PhaseRequests(1, "TXINPUT"))
        /\ Len(first_txo) = tx.outputs_count
        /\ CountsFromZero(PhaseRequests(2, "TXOUTPUT"))
        /\ \A j \in 0..(tx.outputs_count - 1) : (j \in silent) # OutputAcceptedByUser(j)
        /\ \E x \in 1..Len(trace) :
              /\ trace[x].what = "confirm_total" /\ trace[x].flag
              /\ \A y \in 1..Len(trace) : trace[y].ev = "sign" => x < y

\* C25: no signature is produced or handed to the host before phase 1 is
\* complete for all inputs, phase 2 for all outputs, each output either
\* confirmed by the user or accepted as the single change output, and the
\* user has accepted confirm_total.
C25_SignedAfterSingleChangeAndTotal ==
    /\ SignedAfterTotal
    /\ SignatureProduced => Cardinality(silent) <= 1

(***************************************************************************)
(* C26                                                                     *)
(***************************************************************************)
Signings(p) == SelectSeq(trace, LAMBDA e : e.ev = "sign" /\ e.phase = p)

\* The signatures handed to the host or at hand, in the order produced.
Signatures == Deliver.sigs

\* C26: at every point of a session no input index has been signed twice,
\* the inputs signed in phase 4 are the ones with segwit[i] false and the
\* ones signed in phase 6 the ones with segwit[i] true, each phase signs in
\* ascending index order, and each signature is reported with the index
\* of the input it signs; at TXFINISHED every input index has been signed
\* exactly once and the host has one signature for every index.
C26_EachInputSignedOnce ==
    LET all == Signings(4) \o Signings(6) IN
    /\ StrictlyAscending(Signings(4)) /\ StrictlyAscending(Signings(6))
    /\ \A x \in 1..Len(Signings(4)) : ~segwit[Signings(4)[x].index]
    /\ \A x \in 1..Len(Signings(6)) : segwit[Signings(6)[x].index]
    /\ Len(Signatures) = Len(all)
    /\ \A x \in 1..Len(all) :
          /\ Signatures[x].index = all[x].index
          /\ Signatures[x].preimage # "none"
    /\ pc = "done" =>
          /\ Len(host_rx.sigs) = tx.inputs_count
          /\ \A j \in 0..(tx.inputs_count - 1) :
                /\ Cardinality({x \in 1..Len(host_rx.sigs) : host_rx.sigs[x].index = j}) = 1
                /\ Cardinality({x \in 1..Len(trace) :
                                  trace[x].ev = "sign" /\ trace[x].index = j}) = 1

\* A finished session that signed input 1 in phase 4 and input 0 in phase 6.
C26_SignedInBothPhases ==
    /\ pc = "done" /\ tx.inputs_count = 2 /\ segwit[0] /\ ~segwit[1]
    /\ [x \in 1..2 |-> host_rx.sigs[x].index] = <<1, 0>>

(***************************************************************************)
(* C27                                                                     *)
(***************************************************************************)
\* C27: the extra-data loop of the previous-transaction footer ends after
\* at most ceil(extra_data_len / 1024) requests, whatever length of data
\* the host returns for each chunk.
C27_ExtraDataRequestsBounded ==
    prev.requests <= (prev.tx.extra_data_len + ExtraDataChunk - 1) \div ExtraDataChunk

\* When the host returns for every chunk the number of bytes requested, the
\* loop ends after ceil(extra_data_len / 1024) requests.
ExtraDataOfFullChunks ==
    (pc # "prev_extra_data" /\ prev.ofs = prev.tx.extra_data_len /\ prev.ofs > 0
        /\ prev.requests <= 2) =>
        prev.requests = (prev.tx.extra_data_len + ExtraDataChunk - 1) \div ExtraDataChunk

====
